---- MODULE Spec2Model ----
(***************************************************************************)
(* Model of ospd_openvas/daemon.py (class OSPDopenvas): the scan worker    *)
(* exec_scan, stop_scan_cleanup, check_feed and the preference compiler,   *)
(* together with the parts of their environment they synchronise with:     *)
(* the keyed store (OpenvasDB), the engine process (openvas) and the feed  *)
(* marker file.                                                            *)
(***************************************************************************)
EXTENDS Integers, Sequences, FiniteSets, TLC

(***************************************************************************)
(* Bounds of the model.                                                    *)
(***************************************************************************)
\* number of partitions of the store (OpenvasDB.max_dbindex); index 0 is
\* the store's own registry partition and is never handed out
MaxDb == 4
\* host sub-indices one engine process registers
MaxHosts == 1
\* result records the engine writes into one host index
MaxRecs == 1
\* highest feed version published on disk
MaxFeed == 2
\* highest alive-test value a client sends
MaxMask == 33
\* longest queue of records a function is applied to
MaxQueue == 2

\* the client-facing scan ids; scan s uses the engine scan id of the same
\* name (uuid4 is fresh per scan, so distinct scans have distinct ids)
Scans == {1, 2}

Indices == 0 .. (MaxDb - 1)

(***************************************************************************)
(* Keyed store: one record per partition.                                  *)
(*   status[s]  internal/<engine id of s>   ("none" when the key is absent)*)
(*   gsid       the scans s with a key internal/<s>/globalscanid           *)
(*   scan_id    internal/scan_id  (back-reference of a host index), 0 when *)
(*              absent                                                     *)
(*   pid        internal/ovas_pid (the scan whose engine process it names),*)
(*              0 when absent                                              *)
(*   dbindex    internal/dbindex  (registry of host sub-indices)           *)
(*   results    internal/results  (queued result records)                  *)
(*   prefs      internal/<id>/scanprefs                                    *)
(***************************************************************************)
EmptyKb ==
  [status |-> [s \in Scans |-> "none"], gsid |-> {}, scan_id |-> 0,
   pid |-> 0, dbindex |-> <<>>, results |-> <<>>, prefs |-> <<>>]

VARIABLES
  kb,            \* the store: [Indices -> partition record]
  inuse,         \* the store's registry of allocated indices
  pending_feed,  \* OSPDopenvas.pending_feed
  cache_feed,    \* nvti.get_feed_version(): feed version of the store's cache
  disk_feed,     \* PLUGIN_SET of plugin_feed_info.inc on disk
  vts_version,   \* get_vts_version(): version of the in-memory catalog
  w,             \* the scan workers (exec_scan), one per scan
  eng,           \* the engine processes, one per scan
  cl,            \* stop_scan_cleanup called by the parent, one per scan
  stop_cmd,      \* scans whose engine got 'openvas --scan-stop'
  errs,          \* add_scan_error: the error values recorded per scan
  owner,         \* history: the scan whose allocation holds an index
  obs,           \* history: what each worker did that it must not do
  self_vts,      \* self.vts: the feed version whose VTs the in-memory
                 \* catalog holds, -1 when it was cleared and not reloaded
                 \* to the end
  fc,            \* history: what the last call of check_feed met and did
  arg,           \* the input of a function applied on its own
  res            \* its result, "-" before the application

vars == <<kb, inuse, pending_feed, cache_feed, disk_feed, vts_version,
          w, eng, cl, stop_cmd, errs, owner, obs, self_vts, fc,
          arg, res>>

feedVars ==
  <<pending_feed, cache_feed, disk_feed, vts_version, self_vts, fc>>

fnVars == <<arg, res>>

scanVars == <<kb, inuse, w, eng, cl, stop_cmd, errs, owner, obs>>

(***************************************************************************)
(* Keyed Store (OpenvasDB).                                                *)
(***************************************************************************)
\* indices kb_new may hand out
FreeIndices(used) == {i \in Indices : i # 0 /\ i \notin used}

\* kb_new: the index handed out, 0 when the index space is full
kb_new(used) ==
  IF FreeIndices(used) = {} THEN 0
  ELSE CHOOSE i \in FreeIndices(used) : \A j \in FreeIndices(used) : i <= j

\* release_db: every key of the partition is cleared
release_db(store, i) == [store EXCEPT ![i] = EmptyKb]

\* get_single_item('internal/<engine id of s>')
get_status(store, i, s) == store[i].status[s]

\* set_single_item / add_single_item on 'internal/<engine id of s>'
set_status(store, i, s, v) == [store EXCEPT ![i].status[s] = v]

\* remove_list_item('internal/dbindex', h) in partition i
RECURSIVE SeqRemove(_, _)
SeqRemove(q, x) ==
  IF q = <<>> THEN <<>>
  ELSE IF Head(q) = x THEN SeqRemove(Tail(q), x)
       ELSE <<Head(q)>> \o SeqRemove(Tail(q), x)

remove_list_item(store, i, h) ==
  [store EXCEPT ![i].dbindex = SeqRemove(@, h)]

(***************************************************************************)
(* Preference compiler: credentials.                                       *)
(* A credential entry is [service, params]; params maps the sub-fields     *)
(* that are present to their values.  A preference line key|||value is     *)
(* the pair <<key, value>>; a key is written out in full (OID_SSH_AUTH,    *)
(* OID_SMB_AUTH, OID_ESXI_AUTH and OID_SNMP_AUTH followed by the slot).    *)
(***************************************************************************)
\* cred_params.get(name, '')
CredGet(params, name) ==
  IF name \in DOMAIN params THEN params[name] ELSE ""

\* an ssh entry that is taken for a password entry whatever its type
SshByPasswordAlways(cred_type) == TRUE

\* line 1287: cred_type == 'up'
SshByPassword(cred_type) == cred_type = "up"

\* the lines one entry of the credentials dictionary contributes
CredLines(service, p) ==
  LET username == CredGet(p, "username")
      password == CredGet(p, "password")
  IN  (IF service = "ssh"
       THEN <<  <<"auth_port_ssh", CredGet(p, "port")>>,
                <<"1.3.6.1.4.1.25623.1.0.103591:1:entry:SSH login name:", username>> >>
            \o (IF SshByPassword(CredGet(p, "type"))
                THEN << <<"1.3.6.1.4.1.25623.1.0.103591:3:password:SSH password (unsafe!):",
                          password>> >>
                ELSE << <<"1.3.6.1.4.1.25623.1.0.103591:2:password:SSH key passphrase:",
                          password>>,
                        <<"1.3.6.1.4.1.25623.1.0.103591:4:file:SSH private key:",
                          CredGet(p, "private")>> >>)
       ELSE <<>>)
   \o (IF service = "smb"
       THEN << <<"1.3.6.1.4.1.25623.1.0.90023:1:entry:SMB login:", username>>,
               <<"1.3.6.1.4.1.25623.1.0.90023:2:password:SMB password:", password>> >>
       ELSE <<>>)
   \o (IF service = "esxi"
       THEN << <<"1.3.6.1.4.1.25623.1.0.105058:1:entry:ESXi login name:", username>>,
               <<"1.3.6.1.4.1.25623.1.0.105058:2:password:ESXi login password:", password>> >>
       ELSE <<>>)
   \o (IF service = "snmp"
       THEN << <<"1.3.6.1.4.1.25623.1.0.105076:1:password:SNMP Community:",
                 CredGet(p, "community")>>,
               <<"1.3.6.1.4.1.25623.1.0.105076:2:entry:SNMPv3 Username:", username>>,
               <<"1.3.6.1.4.1.25623.1.0.105076:3:password:SNMPv3 Password:", password>>,
               <<"1.3.6.1.4.1.25623.1.0.105076:4:radio:SNMPv3 Authentication Algorithm:",
                 CredGet(p, "auth_algorithm")>>,
               <<"1.3.6.1.4.1.25623.1.0.105076:5:password:SNMPv3 Privacy Password:",
                 CredGet(p, "privacy_password")>>,
               <<"1.3.6.1.4.1.25623.1.0.105076:6:radio:SNMPv3 Privacy Algorithm:",
                 CredGet(p, "privacy_algorithm")>> >>
       ELSE <<>>)

\* build_credentials_as_prefs: the entries in dictionary order
RECURSIVE build_credentials_as_prefs(_)
build_credentials_as_prefs(credentials) ==
  IF credentials = <<>> THEN <<>>
  ELSE CredLines(Head(credentials).service, Head(credentials).params)
       \o build_credentials_as_prefs(Tail(credentials))

(***************************************************************************)
(* Preference compiler: VT selection.                                      *)
(* temp_vts_dict, the per-scan copy of the catalog: two VTs in two         *)
(* families and the ping-host VT.  A parameter value is [txt, int, b64]:   *)
(* its text, whether int() parses it and whether b64decode accepts it.     *)
(***************************************************************************)
OID_PING_HOST == "1.3.6.1.4.1.25623.1.0.100315"

VtOrder == <<"v1", "v2", OID_PING_HOST>>

temp_vts_dict ==
  [v \in {"v1", "v2", OID_PING_HOST} |->
     IF v = "v1"
     THEN [family |-> "f1",
           vt_params |-> [i \in {"0", "1"} |->
                            IF i = "0"
                            THEN [type |-> "entry", name |-> "timeout"]
                            ELSE [type |-> "checkbox", name |-> "opt"]]]
     ELSE IF v = "v2"
     THEN [family |-> "f2",
           vt_params |-> [i \in {"0", "1"} |->
                            IF i = "0"
                            THEN [type |-> "checkbox", name |-> "flag"]
                            ELSE [type |-> "integer", name |-> "num"]]]
     ELSE [family |-> "f3",
           vt_params |-> [i \in {"1", "3"} |->
                            IF i = "1"
                            THEN [type |-> "checkbox",
                                  name |-> "Do a TCP ping"]
                            ELSE [type |-> "checkbox",
                                  name |-> "Do an ICMP ping"]]]]

_from_bool_to_str(value) == IF value = "1" THEN "yes" ELSE "no"

\* insertion into a Python dict: an existing key keeps its place
RECURSIVE DictSet(_, _, _)
DictSet(d, k, v) ==
  IF d = <<>> THEN << <<k, v>> >>
  ELSE IF Head(d)[1] = k THEN << <<k, v>> >> \o Tail(d)
       ELSE <<Head(d)>> \o DictSet(Tail(d), k, v)

\* get_vts_in_groups: the VTs of the catalog whose family a filter names
RECURSIVE FamilyOids(_, _)
FamilyOids(order, fam) ==
  IF order = <<>> THEN <<>>
  ELSE (IF temp_vts_dict[Head(order)].family = fam
        THEN <<Head(order)>> ELSE <<>>)
       \o FamilyOids(Tail(order), fam)

RECURSIVE get_vts_in_groups(_)
get_vts_in_groups(filters) ==
  IF filters = <<>> THEN <<>>
  ELSE (IF Head(filters).key = "family"
           /\ FamilyOids(VtOrder, Head(filters).value) # <<>>
        THEN FamilyOids(VtOrder, Head(filters).value) ELSE <<>>)
       \o get_vts_in_groups(Tail(filters))

get_vt_param_type(vtid, id) ==
  IF id \in DOMAIN temp_vts_dict[vtid].vt_params
  THEN temp_vts_dict[vtid].vt_params[id].type ELSE "None"

get_vt_param_name(vtid, id) ==
  IF id \in DOMAIN temp_vts_dict[vtid].vt_params
  THEN temp_vts_dict[vtid].vt_params[id].name ELSE "None"

\* a check that lets every value pass
check_param_type_lax(value, param_type) == 0

\* check_param_type: 0 (None) when the value matches the type, else 1
check_param_type(value, param_type) ==
  IF param_type \in {"entry", "password", "radio", "sshlogin"} THEN 0
  ELSE IF param_type = "checkbox" /\ value.txt \in {"0", "1"} THEN 0
  ELSE IF param_type = "file" THEN (IF value.b64 THEN 0 ELSE 1)
  ELSE IF param_type = "integer" THEN (IF value.int THEN 0 ELSE 1)
  ELSE 1

\* a check of every parameter against its declared type
TypeAuxDeclared(id, param_type) == param_type

\* lines 1238-1241: the parameter '0' is checked as an integer
TypeAux(id, param_type) == IF id = "0" THEN "integer" ELSE param_type

\* the inner loop of process_vts: the parameters of one selected VT
RECURSIVE VtParams(_, _, _)
VtParams(vtid, params, acc) ==
  IF params = <<>> THEN acc
  ELSE
    LET id == Head(params).id
        value == Head(params).value
        param_type == get_vt_param_type(vtid, id)
        param_name == get_vt_param_name(vtid, id)
        type_aux == TypeAux(id, param_type)
    IN  IF param_type = "None" \/ param_name = "None"
        THEN VtParams(vtid, Tail(params), acc)
        ELSE IF check_param_type(value, type_aux) # 0
        THEN VtParams(vtid, Tail(params), acc)
        ELSE VtParams(vtid, Tail(params),
               DictSet(acc, <<vtid, id, param_type, param_name>>,
                       IF type_aux = "checkbox"
                       THEN _from_bool_to_str(value.txt) ELSE value.txt))

\* the outer loop of process_vts over the explicitly selected VTs
RECURSIVE VtItems(_, _)
VtItems(items, acc) ==
  IF items = <<>> THEN acc
  ELSE IF Head(items).vtid \notin DOMAIN temp_vts_dict
       THEN VtItems(Tail(items), acc)
       ELSE VtItems(Tail(items),
              [list |-> Append(acc.list, Head(items).vtid),
               params |-> VtParams(Head(items).vtid, Head(items).params,
                                   acc.params)])

\* process_vts: [list, params], the VT ids to run and their parameters
process_vts(vts) ==
  VtItems(vts.items,
          [list |-> get_vts_in_groups(vts.vt_groups), params |-> <<>>])

(***************************************************************************)
(* Preference compiler: alive test.                                        *)
(* target_options is [kind, value]: kind "absent" (no alive_test entry),   *)
(* "invalid" (int() raises ValueError) or "int".  A line is <<key, value>>,*)
(* the key being <<vtid, parameter id, type, name>> as process_vts formats *)
(* it.                                                                     *)
(***************************************************************************)
\* class AliveTest
ALIVE_TEST_TCP_ACK_SERVICE == 1
ALIVE_TEST_ICMP == 2
ALIVE_TEST_ARP == 4
ALIVE_TEST_CONSIDER_ALIVE == 8
ALIVE_TEST_TCP_SYN_SERVICE == 16

\* alive_test & flag, for a flag that is a power of two
BitAnd(alive_test, flag) == (alive_test \div flag) % 2 = 1

YesNo(b) == IF b THEN "yes" ELSE "no"

PingKey(id, name) == <<OID_PING_HOST, id, "checkbox", name>>

\* an alive test that is applied whatever its value
OutOfRangeNever(alive_test) == FALSE

\* line 1397
OutOfRange(alive_test) == alive_test < 1 \/ alive_test > 31

\* an alive test that never forces the TCP ping
ForcedPingNever(alive_test) == FALSE

\* line 1475: the alive test is 'consider alive' alone
ForcedPing(alive_test) == alive_test = ALIVE_TEST_CONSIDER_ALIVE

build_alive_test_opt_as_prefs(target_options) ==
  IF target_options.kind # "int" \/ OutOfRange(target_options.value)
  THEN <<>>
  ELSE
    LET alive_test == target_options.value
        ack == BitAnd(alive_test, ALIVE_TEST_TCP_ACK_SERVICE)
        syn == BitAnd(alive_test, ALIVE_TEST_TCP_SYN_SERVICE)
    IN  << <<PingKey("1", "Do a TCP ping"), YesNo(ack \/ syn)>>,
           <<PingKey("2", "TCP ping tries also TCP-SYN ping"),
             YesNo(syn /\ ack)>>,
           <<PingKey("7", "TCP ping tries only TCP-SYN ping"),
             YesNo(syn /\ ~ack)>>,
           <<PingKey("3", "Do an ICMP ping"),
             YesNo(BitAnd(alive_test, ALIVE_TEST_ICMP))>>,
           <<PingKey("4", "Use ARP"),
             YesNo(BitAnd(alive_test, ALIVE_TEST_ARP))>>,
           <<PingKey("5", "Mark unrechable Hosts as dead (not scanning)"),
             YesNo(~BitAnd(alive_test, ALIVE_TEST_CONSIDER_ALIVE))>> >>
        \o (IF ForcedPing(alive_test)
            THEN << <<PingKey("1", "Do a TCP ping"), "yes">> >>
            ELSE <<>>)

\* target options without an alive test
NoTargetOptions == [kind |-> "absent", value |-> 0]

\* a merge that leaves a key the VT parameters already hold
AliveSetDefault(nvts_params, key, val) ==
  IF \E i \in 1 .. Len(nvts_params) : nvts_params[i][1] = key
  THEN nvts_params ELSE Append(nvts_params, <<key, val>>)

\* line 1611: nvts_params[key] = val
AliveSet(nvts_params, key, val) == DictSet(nvts_params, key, val)

\* lines 1609-1611: the alive-test lines are merged into the VT parameters
RECURSIVE AliveMerge(_, _)
AliveMerge(nvts_params, alive_test_opt) ==
  IF alive_test_opt = <<>> THEN nvts_params
  ELSE AliveMerge(AliveSet(nvts_params, Head(alive_test_opt)[1],
                           Head(alive_test_opt)[2]),
                  Tail(alive_test_opt))

\* the lines of a dictionary, in its order
RECURSIVE DictLines(_)
DictLines(d) ==
  IF d = <<>> THEN <<>>
  ELSE << <<Head(d)[1], Head(d)[2]>> >> \o DictLines(Tail(d))

\* lines 1595-1618: the plugin_set line and the VT parameter lines
VtPrefs(nvts, target_options) ==
  << <<"plugin_set", process_vts(nvts).list>> >>
  \o DictLines(AliveMerge(process_vts(nvts).params,
                          build_alive_test_opt_as_prefs(target_options)))

\* a harvest without the branch of line 982
ResultTypesNoError == {<<"LOG">>, <<"HOST_DETAIL">>, <<"ALARM">>}

(***************************************************************************)
(* Records the engine leaves in the store and references of the feed.      *)
(* A result line is the sequence of its pieces of text and '|||'           *)
(* delimiters, a field the sequence of the pieces between two delimiters.  *)
(* A status line is the sequence of its '/'-separated parts, each part     *)
(* [num, v]: whether float() parses it and its value.  Sequences are       *)
(* indexed from 1, Python lists from 0.                                    *)
(***************************************************************************)
ResultTypes == {<<"ERRMSG">>, <<"LOG">>, <<"HOST_DETAIL">>, <<"ALARM">>}

\* self.vts as load_vts fills it: the severities of the VTs of the catalog
VtsCatalog ==
  [oid \in {"oid", "oid3", "oidnv"} |->
     [severities |->
        [severity_type |-> IF oid = "oid3" THEN "cvss_base_v3"
                           ELSE "cvss_base_v2",
         severity_base_vector |-> IF oid = "oidnv" THEN ""
                                  ELSE "AV:N/AC:L/Au:N/C:P/I:P/A:P"]]]

\* self.vts.get(roid): the VT, or <<>> for None
VtsGet(roid) ==
  IF Len(roid) = 1 /\ roid[1] \in DOMAIN VtsCatalog
  THEN <<VtsCatalog[roid[1]]>> ELSE <<>>

\* a scoring that takes every scheme for the supported one
SupportedSeverityAnyType(severity_type, severity_vector) ==
  severity_vector # ""

\* line 951
SupportedSeverity(severity_type, severity_vector) ==
  severity_type = "cvss_base_v2" /\ severity_vector # ""

\* lines 939-954: "None" or the score CVSS.cvss_base_v2_value gives
get_severity_score(vt_aux) ==
  IF vt_aux # <<>>
     /\ SupportedSeverity(vt_aux[1].severities.severity_type,
                          vt_aux[1].severities.severity_base_vector)
  THEN "score" ELSE "None"

\* line 960: res.split('|||'), cur being the field under way
RECURSIVE Split(_, _)
Split(line, cur) ==
  IF line = <<>> THEN <<cur>>
  ELSE IF Head(line) = "|||" THEN <<cur>> \o Split(Tail(line), <<>>)
  ELSE Split(Tail(line), Append(cur, Head(line)))

\* line 965: "Host dead" in msg[4]
HostDead(value) == \E i \in 1 .. Len(value) : value[i] = "Host dead"

\* lines 956-1029: [added, exc, left] after the loop over internal/results
RECURSIVE get_openvas_result(_, _)
get_openvas_result(queue, added) ==
  IF queue = <<>> THEN [added |-> added, exc |-> "None", left |-> <<>>]
  ELSE
    LET msg == Split(Head(queue), <<>>)
    IN  IF Len(msg) < 5
        THEN [added |-> added, exc |-> "IndexError", left |-> Tail(queue)]
        ELSE
          LET roid == msg[4]
              host_is_dead == HostDead(msg[5])
              vt_aux == IF roid # <<>> /\ ~host_is_dead
                        THEN VtsGet(roid) ELSE <<>>
          IN  get_openvas_result(Tail(queue),
                IF msg[1] \in ResultTypes
                THEN Append(added,
                            [type |-> msg[1], hostname |-> msg[2],
                             port |-> msg[3], test_id |-> roid,
                             value |-> msg[5],
                             severity |-> IF msg[1] = <<"ALARM">>
                                          THEN get_severity_score(vt_aux)
                                          ELSE "None"])
                ELSE added)

\* a total of -1 treated as any other total
ForcedCompleteNever(total) == FALSE

\* line 921: a total of -1 stands for a host that is done
ForcedComplete(total) == total.v = -1

\* lines 903-925: "return", "ValueError" or the progress set for the host
update_progress(msg) ==
  IF Len(msg) # 2 THEN [exc |-> "None", set |-> FALSE, host_prog |-> 0]
  ELSE
    LET launched == msg[1]
        total == msg[2]
    IN  IF ~total.num
        THEN [exc |-> "ValueError", set |-> FALSE, host_prog |-> 0]
        ELSE IF total.v = 0
        THEN [exc |-> "None", set |-> FALSE, host_prog |-> 0]
        ELSE IF ForcedComplete(total)
        THEN [exc |-> "None", set |-> TRUE, host_prog |-> 100]
        ELSE IF ~launched.num
        THEN [exc |-> "ValueError", set |-> FALSE, host_prog |-> 0]
        ELSE [exc |-> "None", set |-> TRUE,
              host_prog |-> (launched.v * 100) \div total.v]

\* lines 927-937: [added, exc, left] after the loop over internal/status
RECURSIVE get_openvas_status(_, _)
get_openvas_status(queue, added) ==
  IF queue = <<>> THEN [added |-> added, exc |-> "None", left |-> <<>>]
  ELSE
    LET r == update_progress(Head(queue))
    IN  IF r.exc # "None"
        THEN [added |-> added, exc |-> r.exc, left |-> Tail(queue)]
        ELSE get_openvas_status(Tail(queue),
               IF r.set THEN Append(added, r.host_prog) ELSE added)

\* lines 617-627: the xrefs of one value set the attributes of its element
RECURSIVE XrefSet(_, _)
XrefSet(xrefs, vt_ref) ==
  IF xrefs = <<>> THEN vt_ref
  ELSE XrefSet(Tail(xrefs),
               IF Head(xrefs).sep
               THEN [type |-> Head(xrefs).type, id |-> Head(xrefs).id]
               ELSE vt_ref)

\* lines 613-637: the <ref> elements of the xref values of a VT; a value is
\* the sequence of its ', '-separated xrefs, each [sep, type, id]
RECURSIVE get_refs_vt_as_xml_str(_, _)
get_refs_vt_as_xml_str(ref_values, vt_refs_xml) ==
  IF ref_values = <<>>
  THEN [added |-> vt_refs_xml, exc |-> "None", left |-> <<>>]
  ELSE get_refs_vt_as_xml_str(Tail(ref_values),
         IF Head(ref_values) = <<>> THEN vt_refs_xml
         ELSE Append(vt_refs_xml,
                     XrefSet(Head(ref_values),
                             [type |-> "unset", id |-> "unset"])))

(***************************************************************************)
(* Preference compiler: scan options and excluded hosts.                   *)
(* The options are a dictionary of <<key, value>>.  A comma-joined string  *)
(* is the sequence of its hosts and commas.                                *)
(***************************************************************************)
\* OSPD_PARAMS[key].get('type'), "" for a key that is not in OSPD_PARAMS
OSPD_PARAMS(key) ==
  IF key \in {"auto_enable_dependencies", "drop_privileges", "network_scan",
              "report_host_details", "safe_checks", "unscanned_closed",
              "unscanned_closed_udp", "expand_vhosts", "test_empty_vhost"}
  THEN "boolean"
  ELSE IF key \in {"checks_read_timeout", "open_sock_max_attempts",
                   "timeout_retry", "optimize_test", "plugins_timeout",
                   "scanner_plugins_timeout", "time_between_request"}
  THEN "integer"
  ELSE IF key \in {"cgi_path", "non_simult_ports"} THEN "string"
  ELSE ""

\* ','.join(list)
RECURSIVE Join(_)
Join(list) ==
  IF list = <<>> THEN <<>>
  ELSE IF Len(list) = 1 THEN list
  ELSE <<Head(list), ",">> \o Join(Tail(list))

\* an exclusion list that leaves the finished hosts out
ExcludeHostsExplicit(exclude_hosts, finished_hosts) == exclude_hosts

\* lines 1532-1538: the value of exclude_hosts of a resumed scan
ExcludeHosts(exclude_hosts, finished_hosts) ==
  IF exclude_hosts # <<>>
  THEN exclude_hosts \o <<",">> \o Join(finished_hosts)
  ELSE Join(finished_hosts)

\* lines 1524-1538: the options after the exclusions are merged in
ExcludeOption(options, exclude_hosts, finished_hosts) ==
  LET explicit == IF exclude_hosts # <<>>
                  THEN DictSet(options, "exclude_hosts", exclude_hosts)
                  ELSE options
  IN  IF finished_hosts # <<>>
      THEN DictSet(explicit, "exclude_hosts",
                   ExcludeHosts(exclude_hosts, finished_hosts))
      ELSE explicit

\* lines 1541-1549: one preference line per option
RECURSIVE OptionPrefs(_)
OptionPrefs(options) ==
  IF options = <<>> THEN <<>>
  ELSE << <<Head(options)[1],
            IF OSPD_PARAMS(Head(options)[1]) = "boolean"
            THEN _from_bool_to_str(Head(options)[2])
            ELSE Head(options)[2]>> >>
       \o OptionPrefs(Tail(options))

\* lines 1507-1552: the option lines exec_scan writes first
ScanOptionPrefs(options, exclude_hosts, finished_hosts) ==
  OptionPrefs(ExcludeOption(options, exclude_hosts, finished_hosts))

\* get_scan_options: the options of a scan the client left at their defaults
DefaultOptions ==
  << <<"safe_checks", "1">>, <<"drop_privileges", "0">>,
     <<"cgi_path", "/cgi-bin:/scripts">> >>

(***************************************************************************)
(* Inputs of a scan: credentials (get_scan_credentials) and VT selection   *)
(* (get_scan_vts; given = FALSE is the empty string '').                   *)
(***************************************************************************)
NoCredentials == <<>>

SshUp ==
  << [service |-> "ssh",
      params |-> [f \in {"type", "username", "password", "port"} |->
                    CASE f = "type" -> "up" [] f = "username" -> "user"
                      [] f = "password" -> "pw" [] f = "port" -> "22"]] >>

\* an ssh entry without username
SshNoUsername ==
  << [service |-> "ssh",
      params |-> [f \in {"type", "password", "port"} |->
                    CASE f = "type" -> "up" [] f = "password" -> "pw"
                      [] f = "port" -> "22"]] >>

\* an smb entry without password
SmbNoPassword ==
  << [service |-> "smb", params |-> [f \in {"username"} |-> "user"]] >>

\* an entry for a service the compiler does not know
UnknownService ==
  << [service |-> "ftp",
      params |-> [f \in {"username", "password"} |->
                    IF f = "username" THEN "user" ELSE "pw"]] >>

NoVts == [given |-> FALSE, vt_groups |-> <<>>, items |-> <<>>]

VtsHit ==
  [given |-> TRUE, vt_groups |-> <<>>,
   items |-> << [vtid |-> "v1", params |-> <<>>] >>]

VtsGroupHit ==
  [given |-> TRUE, vt_groups |-> << [key |-> "family", value |-> "f2"] >>,
   items |-> <<>>]

\* an explicit id and a group filter, neither of which is in the catalog
VtsMiss ==
  [given |-> TRUE, vt_groups |-> << [key |-> "family", value |-> "fX"] >>,
   items |-> << [vtid |-> "vX", params |-> <<>>] >>]

\* the ping-host VT with its 'Do a TCP ping' parameter set by the client
VtsPing(v) ==
  [given |-> TRUE, vt_groups |-> <<>>,
   items |-> << [vtid |-> OID_PING_HOST,
                 params |-> << [id |-> "1",
                                value |-> [txt |-> v, int |-> TRUE,
                                           b64 |-> FALSE]] >>] >>]

\* a parameter value as the client sends it
ParamValue(txt) ==
  [txt |-> txt, int |-> txt \in {"0", "1", "2", "42"}, b64 |-> FALSE]

\* v1 with its checkbox and its timeout, v2 with its integer parameter
VtsParams(cb, timeout, num) ==
  [given |-> TRUE, vt_groups |-> <<>>,
   items |-> << [vtid |-> "v1",
                 params |-> << [id |-> "1", value |-> ParamValue(cb)],
                               [id |-> "0",
                                value |-> ParamValue(timeout)] >>],
                [vtid |-> "v2",
                 params |-> << [id |-> "1",
                                value |-> ParamValue(num)] >>] >>]

\* v2 with its parameter '0', which the catalog declares a checkbox
VtsZero(v) ==
  [given |-> TRUE, vt_groups |-> <<>>,
   items |-> << [vtid |-> "v2",
                 params |-> << [id |-> "0", value |-> ParamValue(v)] >>] >>]

\* an ssh entry of the given type, "" standing for an entry without type
SshOfType(cred_type) ==
  << [service |-> "ssh",
      params |-> [f \in {"username", "password", "port", "private"}
                         \cup (IF cred_type = "" THEN {} ELSE {"type"}) |->
                    CASE f = "type" -> cred_type [] f = "username" -> "user"
                      [] f = "password" -> "pw" [] f = "port" -> "22"
                      [] f = "private" -> "key"]] >>

AllCredentials ==
  {NoCredentials, SshUp, SshNoUsername, SmbNoPassword, UnknownService}
AllVts == {NoVts, VtsHit, VtsGroupHit, VtsMiss, VtsParams("1", "42", "abc")}

\* the inputs of the scans whose whole life cycle is followed
LifeCredentials == {NoCredentials, UnknownService}
LifeVts == {NoVts, VtsHit}

\* the sub-fields the compiler reads for a service
RequiredFields(service, p) ==
  IF service = "ssh"
  THEN (IF CredGet(p, "type") = "up" THEN {"username", "password"}
        ELSE {"username", "private"})
  ELSE IF service \in {"smb", "esxi"} THEN {"username", "password"}
  ELSE IF service = "snmp" THEN {"community", "username", "password"}
  ELSE {}

Recognized == {"ssh", "smb", "esxi", "snmp"}

\* some entry of a recognized service lacks a required sub-field
Malformed(credentials) ==
  \E k \in 1 .. Len(credentials) :
    /\ credentials[k].service \in Recognized
    /\ ~(RequiredFields(credentials[k].service, credentials[k].params)
           \subseteq DOMAIN credentials[k].params)

(***************************************************************************)
(* Initial state: the daemon is up, the catalog is loaded from a feed of   *)
(* version 1, no scan has been requested.                                  *)
(***************************************************************************)
W0 ==
  [pc |-> "idle", main |-> 0, no_id_found |-> FALSE, dbs |-> <<>>,
   cur |-> 0, credentials |-> <<>>, nvts |-> NoVts,
   do_not_launch |-> FALSE, ret |-> "-",
   tick |-> 0, hit |-> FALSE, prevhit |-> FALSE, everhit |-> FALSE,
   exit |-> "-", finished_hosts |-> {}, skipped |-> {}]

E0 ==
  [st |-> "none", main |-> 0, hosts |-> <<>>, code |-> 0, flipped |-> FALSE]

C0 == [pc |-> "idle", kbi |-> 0, pid |-> 0, polling |-> FALSE]

\* no function is applied on its own
NoArg == [fn |-> "none"]
NoRes == [done |-> FALSE]

FC0 ==
  [called |-> FALSE, running |-> FALSE, absent |-> FALSE, cleared |-> FALSE,
   loaded |-> FALSE, pending |-> FALSE, turn |-> FALSE]

\* the scans and the store before any scan is requested
ScanInit ==
  /\ kb = [i \in Indices |-> EmptyKb]
  /\ inuse = {}
  /\ w = [s \in Scans |-> W0]
  /\ eng = [s \in Scans |-> E0]
  /\ cl = [s \in Scans |-> C0]
  /\ stop_cmd = {}
  /\ errs = [s \in Scans |-> {}]
  /\ owner = [i \in Indices |-> 0]
  /\ obs = {}

Init ==
  /\ ScanInit
  /\ pending_feed = FALSE
  /\ cache_feed = 1
  /\ disk_feed = 1
  /\ vts_version = 1
  /\ self_vts = 1
  /\ fc = FC0
  /\ arg = NoArg
  /\ res = NoRes

\* the scan process of s is alive (scan_processes[s].is_alive())
Alive(s) == w[s].pc \notin {"idle", "done"}

\* the engine process of s exists (psutil.Process(pid) finds it)
ProcessExists(s) == eng[s].st \in {"new", "run", "fin"}

(***************************************************************************)
(* History.  owner[i] is the scan for which index i is allocated (main     *)
(* index, or host index registered by its engine), 0 when i is free.       *)
(* obs collects what code of scan s did to an index that was not, or no    *)
(* longer, allocated for s:                                                *)
(*   <<"dbl_loop", s>>   the polling loop of the worker released it (the   *)
(*                       per-host release, the end-of-loop release)        *)
(*   <<"dbl", s>>        another release_db of the worker released it      *)
(*   <<"dbl_parent", s>> stop_scan_cleanup of the parent released it       *)
(*   <<"stale", s>>      the polling loop read, popped or enumerated it    *)
(*   <<"stale_wait", s>> the launch wait read it                           *)
(*   <<"foreign", s>>    the index was allocated for another scan when the *)
(*                       worker popped a record from it or released it     *)
(*   <<"foreign_parent", s>> the same for a release by stop_scan_cleanup   *)
(*                       of the parent                                     *)
(***************************************************************************)
ReadObs(s, i, tag) ==
  IF owner[i] # s THEN {<<tag, s>>} ELSE {}

PopObs(s, i) ==
  ReadObs(s, i, "stale")
  \cup (IF owner[i] \notin {0, s} /\ kb[i].results # <<>>
        THEN {<<"foreign", s>>} ELSE {})

RelObs(s, R, tag) ==
  (IF \E i \in R : owner[i] # s THEN {<<tag, s>>} ELSE {})
  \cup (IF \E i \in R : owner[i] \notin {0, s}
        THEN {<<IF tag = "dbl_parent" THEN "foreign_parent" ELSE "foreign",
                s>>}
        ELSE {})

\* the registry and the history after the indices R are released
Freed(R) ==
  /\ inuse' = inuse \ R
  /\ owner' = [i \in Indices |-> IF i \in R THEN 0 ELSE owner[i]]

\* the store after the indices R are released
RECURSIVE ReleaseAll(_, _)
ReleaseAll(store, R) ==
  IF R = {} THEN store
  ELSE LET i == CHOOSE x \in R : TRUE
       IN  ReleaseAll(release_db(store, i), R \ {i})

(***************************************************************************)
(* exec_scan, the scan worker.                                             *)
(*   w[s].pc: idle, prefs, launch, pid, wait, stopchk, harvest, host,      *)
(*   hostfin, check, relmain, done.  History fields of w[s]: tick (ticks   *)
(*   of the polling loop completed, counted up to 2), hit (a host index    *)
(*   with this scan's back-reference was met in the current tick),         *)
(*   prevhit (the same for the tick before), everhit, exit (the branch     *)
(*   exec_scan returned through).                                          *)
(***************************************************************************)
Return(s, value, branch) ==
  [w[s] EXCEPT !.pc = "done", !.ret = value, !.exit = branch]

\* a start of a scan that ignores the pending feed update
FeedBlocksNever(pending) == FALSE

\* line 1483: a pending feed update blocks the start of a scan
FeedBlocks(pending) == pending

\* lines 1483-1523: the two rejections, then kb_new and the control keys
ExecScanStart(s) ==
  /\ w[s].pc = "idle"
  /\ \E ports \in BOOLEAN :
       IF FeedBlocks(pending_feed)
       THEN /\ errs' = [errs EXCEPT ![s] = @ \cup {"pending feed update"}]
            /\ w' = [w EXCEPT ![s] = Return(s, "2", "feed")]
            /\ UNCHANGED <<kb, inuse, owner>>
       ELSE IF ~ports
       THEN /\ errs' = [errs EXCEPT ![s] = @ \cup {"No port list defined."}]
            /\ w' = [w EXCEPT ![s] = Return(s, "2", "ports")]
            /\ UNCHANGED <<kb, inuse, owner>>
       ELSE IF kb_new(inuse) = 0
       THEN /\ w' = [w EXCEPT ![s] = Return(s, "exc", "exhausted")]
            /\ UNCHANGED <<kb, inuse, owner, errs>>
       ELSE LET i == kb_new(inuse)
            IN  /\ kb' = [kb EXCEPT ![i] = [EmptyKb EXCEPT
                                              !.status[s] = "new",
                                              !.gsid = {s}]]
                /\ inuse' = inuse \cup {i}
                /\ owner' = [owner EXCEPT ![i] = s]
                /\ w' = [w EXCEPT ![s].pc = "prefs", ![s].main = i]
                /\ UNCHANGED errs
  /\ UNCHANGED <<fnVars, feedVars, eng, cl, stop_cmd, obs>>

\* preference lines without credentials and VT selection
ScanPrefsBare(main, ports, credentials, nvts) ==
  << <<"ov_maindbid", ToString(main)>>,
     <<"TARGET", "target">>,
     <<"port_range", ports>> >>

\* lines 1507-1625: the preference lines exec_scan appends to scanprefs
ScanPrefs(main, ports, credentials, nvts) ==
  ScanOptionPrefs(DefaultOptions, <<>>, <<>>)
  \o
  << <<"ov_maindbid", ToString(main)>>,
     <<"TARGET", "target">>,
     <<"port_range", ports>> >>
  \o build_credentials_as_prefs(credentials)
  \o (IF nvts.given THEN VtPrefs(nvts, NoTargetOptions) ELSE <<>>)

\* line 1577-1587: credentials were given and compiled to no line
CredentialsFail(credentials) ==
  credentials # <<>> /\ build_credentials_as_prefs(credentials) = <<>>

\* line 1595: the VT selection that makes exec_scan give up
VtsFail(nvts) == ~nvts.given

\* lines 1525-1625: preferences, credentials and VT selection are written
WritePrefs(s, CS, VS) ==
  /\ w[s].pc = "prefs"
  /\ \E credentials \in CS, nvts \in VS :
       /\ kb' = [kb EXCEPT ![w[s].main].prefs =
                   @ \o ScanPrefs(w[s].main, "ports", credentials, nvts)]
       /\ errs' = [errs EXCEPT ![s] =
                     @ \cup (IF CredentialsFail(credentials)
                             THEN {"Malformed credential."} ELSE {})
                       \cup (IF VtsFail(nvts)
                             THEN {"No VTS to run."} ELSE {})]
       /\ w' = [w EXCEPT ![s].pc = "launch",
                         ![s].credentials = credentials,
                         ![s].nvts = nvts,
                         ![s].do_not_launch =
                            CredentialsFail(credentials) \/ VtsFail(nvts)]
  /\ UNCHANGED <<fnVars, feedVars, inuse, eng, cl, stop_cmd, owner, obs>>

\* a rejection that returns without releasing the main index
RejectReturn(s) ==
  /\ w[s].pc = "launch"
  /\ w[s].do_not_launch
  /\ w' = [w EXCEPT ![s] = Return(s, "2", "rejected")]
  /\ UNCHANGED <<fnVars, feedVars, kb, inuse, eng, cl, stop_cmd, errs, owner,
                 obs>>

\* lines 1627-1629: do_not_launch, the main index is released
RejectRelease(s) ==
  /\ w[s].pc = "launch"
  /\ w[s].do_not_launch
  /\ kb' = release_db(kb, w[s].main)
  /\ Freed({w[s].main})
  /\ obs' = obs \cup RelObs(s, {w[s].main}, "dbl")
  /\ w' = [w EXCEPT ![s] = Return(s, "2", "rejected")]
  /\ UNCHANGED <<fnVars, feedVars, eng, cl, stop_cmd, errs>>

\* lines 1639-1643: subprocess.Popen raises OSError
SpawnFail(s) ==
  /\ w[s].pc = "launch"
  /\ ~w[s].do_not_launch
  /\ w' = [w EXCEPT ![s] = Return(s, "False", "oserror")]
  /\ UNCHANGED <<fnVars, feedVars, kb, inuse, eng, cl, stop_cmd, errs, owner, obs>>

\* lines 1631-1646: the engine process is created
Spawn(s) ==
  /\ w[s].pc = "launch"
  /\ ~w[s].do_not_launch
  /\ eng' = [eng EXCEPT ![s] = [E0 EXCEPT !.st = "new", !.main = w[s].main]]
  /\ w' = [w EXCEPT ![s].pc = "pid"]
  /\ UNCHANGED <<fnVars, feedVars, kb, inuse, cl, stop_cmd, errs, owner, obs>>

\* line 1647: internal/ovas_pid
WritePid(s) ==
  /\ w[s].pc = "pid"
  /\ kb' = [kb EXCEPT ![w[s].main].pid = s]
  /\ w' = [w EXCEPT ![s].pc = "wait"]
  /\ UNCHANGED <<fnVars, feedVars, inuse, eng, cl, stop_cmd, errs, owner, obs>>

(***************************************************************************)
(* stop_scan_cleanup.                                                      *)
(***************************************************************************)
\* line 1085-1088: the partitions that hold internal/<s>/globalscanid
ScanKbs(store, s) == {k \in Indices : s \in store[k].gsid}

\* line 1135: the partitions that hold a key internal/<engine id of s>
HostKbs(store, s) == {h \in Indices : get_status(store, h, s) # "none"}

\* the least element of a non-empty set of indices
Least(S) == CHOOSE i \in S : \A j \in S : i <= j

\* lines 1082-1136 run in one piece by a caller for whom the engine
\* process no longer exists: the indices it releases
CleanupReleased(store, s) ==
  ScanKbs(store, s) \cup HostKbs(ReleaseAll(store, ScanKbs(store, s)), s)

\* lines 1650-1663: the wait on the 'new' sentinel
\* a launch wait that never waits
StillNewNever(status) == FALSE

\* lines 1650-1653: the sentinel still reads 'new'
StillNew(status) == status = "new"

LaunchWait(s) ==
  /\ w[s].pc = "wait"
  /\ IF StillNew(get_status(kb, w[s].main, s))
     THEN \* res = result.poll(); res and res < 0
          /\ eng[s].st = "dead"
          /\ eng[s].code < 0
          /\ kb' = ReleaseAll(kb, CleanupReleased(kb, s))
          /\ Freed(CleanupReleased(kb, s))
          /\ obs' = obs \cup RelObs(s, CleanupReleased(kb, s), "dbl")
          /\ w' = [w EXCEPT ![s] = Return(s, "1", "launchfail")]
     ELSE /\ obs' = obs \cup ReadObs(s, w[s].main, "stale_wait")
          /\ w' = [w EXCEPT ![s].pc = "stopchk", ![s].no_id_found = FALSE]
          /\ UNCHANGED <<kb, inuse, owner>>
  /\ UNCHANGED <<fnVars, feedVars, eng, cl, stop_cmd, errs>>

(***************************************************************************)
(* The polling loop of exec_scan, lines 1665-1709.                         *)
(***************************************************************************)
\* line 1669-1670: scan_is_stopped
scan_is_stopped(store, main, s) == get_status(store, main, s) = "stop_all"

StopCheck(s) ==
  /\ w[s].pc = "stopchk"
  /\ obs' = obs \cup ReadObs(s, w[s].main, "stale")
  /\ w' = [w EXCEPT ![s] =
             IF scan_is_stopped(kb, w[s].main, s)
             THEN Return(s, "1", "stopped")
             ELSE [w[s] EXCEPT !.pc = "harvest"]]
  /\ UNCHANGED <<fnVars, feedVars, kb, inuse, eng, cl, stop_cmd, errs, owner>>

\* the place of the loop after the registered indices `rest` are left
AfterHosts(rest) == IF rest = <<>> THEN "check" ELSE "host"

\* lines 1672-1676: the results of the main index are harvested and the
\* registry of host indices is enumerated
HarvestMain(s) ==
  /\ w[s].pc = "harvest"
  /\ obs' = obs \cup PopObs(s, w[s].main)
  /\ kb' = [kb EXCEPT ![w[s].main].results = <<>>]
  /\ w' = [w EXCEPT ![s].dbs = kb[w[s].main].dbindex,
                    ![s].pc = AfterHosts(kb[w[s].main].dbindex)]
  /\ UNCHANGED <<fnVars, feedVars, inuse, eng, cl, stop_cmd, errs, owner>>

\* a test that takes every registered index for a host of this scan
OwnHostAlways(id_aux, s) == TRUE

\* lines 1680-1683: the back-reference is present and names this scan
OwnHost(id_aux, s) == id_aux # 0 /\ id_aux = s

\* lines 1677-1688: the next registered index is selected; when it carries
\* this scan's back-reference its records are harvested
HostHarvest(s) ==
  /\ w[s].pc = "host"
  /\ LET i == Head(w[s].dbs)
     IN  IF i = w[s].main
         THEN /\ w' = [w EXCEPT ![s].dbs = Tail(@),
                                ![s].pc = AfterHosts(Tail(w[s].dbs))]
              /\ UNCHANGED <<kb, obs>>
         ELSE IF ~OwnHost(kb[i].scan_id, s)
         THEN /\ obs' = obs \cup ReadObs(s, i, "stale")
              /\ w' = [w EXCEPT ![s].dbs = Tail(@),
                                ![s].skipped = @ \cup {i},
                                ![s].pc = AfterHosts(Tail(w[s].dbs))]
              /\ UNCHANGED kb
         ELSE /\ obs' = obs \cup PopObs(s, i)
              /\ kb' = [kb EXCEPT ![i].results = <<>>]
              /\ w' = [w EXCEPT ![s].no_id_found = FALSE,
                                ![s].hit = TRUE,
                                ![s].everhit = TRUE,
                                ![s].cur = i,
                                ![s].pc = "hostfin"]
  /\ UNCHANGED <<fnVars, feedVars, inuse, eng, cl, stop_cmd, errs, owner>>

\* a completion test that takes every host for finished
host_is_finished_always(store, i, s) == TRUE

\* line 1689: host_is_finished, read in the selected host index
host_is_finished(store, i, s) == get_status(store, i, s) = "finished"

\* lines 1689-1701: a finished host index leaves the registry and is released
HostFinish(s) ==
  /\ w[s].pc = "hostfin"
  /\ LET i == w[s].cur
     IN  /\ IF host_is_finished(kb, i, s)
            THEN /\ kb' = release_db(remove_list_item(kb, w[s].main, i), i)
                 /\ Freed({i})
                 /\ obs' = obs \cup ReadObs(s, i, "stale")
                              \cup RelObs(s, {i}, "dbl_loop")
            ELSE /\ obs' = obs \cup ReadObs(s, i, "stale")
                 /\ UNCHANGED <<kb, inuse, owner>>
         /\ w' = [w EXCEPT ![s].dbs = Tail(@), ![s].cur = 0,
                           ![s].finished_hosts =
                              IF host_is_finished(kb, i, s)
                              THEN @ \cup {i} ELSE @,
                           ![s].pc = AfterHosts(Tail(w[s].dbs))]
  /\ UNCHANGED <<fnVars, feedVars, eng, cl, stop_cmd, errs>>

\* target_is_finished without the test for 'finished'
target_is_finished_absent(store, main, s) ==
  IF s \in store[main].gsid
  THEN get_status(store, main, s) = "none"
  ELSE TRUE

\* lines 1051-1062: target_is_finished looks the engine id up under the
\* client's scan id; without it the status key read is 'internal/None'
target_is_finished(store, main, s) ==
  IF s \in store[main].gsid
  THEN get_status(store, main, s) \in {"finished", "none"}
  ELSE TRUE

\* the exit test without the no_id_found flag
LoopExitUnflagged(no_id_found, finished) == finished

\* line 1704: the exit test of the polling loop
LoopExit(no_id_found, finished) == no_id_found /\ finished

\* lines 1703-1706: the loop ends, or the next tick begins
CompletionCheck(s) ==
  /\ w[s].pc = "check"
  /\ obs' = obs \cup (IF w[s].no_id_found
                      THEN ReadObs(s, w[s].main, "stale") ELSE {})
  /\ w' = [w EXCEPT ![s] =
             IF LoopExit(w[s].no_id_found,
                         target_is_finished(kb, w[s].main, s))
             THEN [w[s] EXCEPT !.pc = "relmain"]
             ELSE [w[s] EXCEPT !.pc = "stopchk", !.no_id_found = TRUE,
                               !.prevhit = w[s].hit, !.hit = FALSE,
                               !.skipped = {},
                               !.tick = IF @ < 2 THEN @ + 1 ELSE @]]
  /\ UNCHANGED <<fnVars, feedVars, kb, inuse, eng, cl, stop_cmd, errs, owner>>

\* line 1709: the main index is released
ReleaseMain(s) ==
  /\ w[s].pc = "relmain"
  /\ kb' = release_db(kb, w[s].main)
  /\ Freed({w[s].main})
  /\ obs' = obs \cup RelObs(s, {w[s].main}, "dbl_loop")
  /\ w' = [w EXCEPT ![s] = Return(s, "None", "normal")]
  /\ UNCHANGED <<fnVars, feedVars, eng, cl, stop_cmd, errs>>

(***************************************************************************)
(* stop_scan_cleanup called by the parent process on a client's stop       *)
(* request.  cl[s].pc: idle, wait, rel, relhosts, done, failed.            *)
(* History: cl[s].polling, the worker was in its polling loop when         *)
(* 'stop_all' was written.                                                 *)
(***************************************************************************)
PollingPcs == {"stopchk", "harvest", "host", "hostfin", "check"}

\* lines 1092-1105: psutil.Process(int(ovas_pid)) finds the process
ParentFound(pid) == pid # 0 /\ ProcessExists(pid)

\* lines 1082-1121: the scan is looked up, 'stop_all' is written and the
\* stop instruction is issued
StopRequest(s) ==
  /\ cl[s].pc = "idle"
  /\ Alive(s)
  /\ IF ScanKbs(kb, s) = {}
     THEN /\ cl' = [cl EXCEPT ![s].pc = "done"]
          /\ UNCHANGED <<kb, stop_cmd>>
     ELSE LET k == Least(ScanKbs(kb, s))
          IN  /\ kb' = set_status(kb, k, s, "stop_all")
              /\ IF ParentFound(kb[k].pid)
                 THEN \/ /\ stop_cmd' = stop_cmd \cup {s}
                         /\ cl' = [cl EXCEPT ![s] =
                                     [pc |-> "wait", kbi |-> k,
                                      pid |-> kb[k].pid,
                                      polling |-> w[s].pc \in PollingPcs]]
                      \/ \* subprocess.Popen raises OSError: return False
                         /\ cl' = [cl EXCEPT ![s].pc = "failed",
                                              ![s].polling =
                                                 w[s].pc \in PollingPcs]
                         /\ UNCHANGED stop_cmd
                 ELSE /\ cl' = [cl EXCEPT ![s] =
                                  [pc |-> "rel", kbi |-> k, pid |-> 0,
                                   polling |-> w[s].pc \in PollingPcs]]
                      /\ UNCHANGED stop_cmd
  /\ UNCHANGED <<fnVars, feedVars, inuse, w, eng, errs, owner, obs>>

\* lines 1124-1128: the active wait until the process is gone
CleanupWait(s) ==
  /\ cl[s].pc = "wait"
  /\ ~ProcessExists(cl[s].pid)
  /\ cl' = [cl EXCEPT ![s].pc = "rel"]
  /\ UNCHANGED <<fnVars, feedVars, kb, inuse, w, eng, stop_cmd, errs, owner, obs>>

\* line 1130: the index that held the scan is released
CleanupRelease(s) ==
  /\ cl[s].pc = "rel"
  /\ kb' = release_db(kb, cl[s].kbi)
  /\ Freed({cl[s].kbi})
  /\ obs' = obs \cup RelObs(s, {cl[s].kbi}, "dbl_parent")
  /\ cl' = [cl EXCEPT ![s].pc = "relhosts"]
  /\ UNCHANGED <<fnVars, feedVars, w, eng, stop_cmd, errs>>

\* lines 1131-1136: every index with a key of the engine scan id is released
CleanupHosts(s) ==
  /\ cl[s].pc = "relhosts"
  /\ kb' = ReleaseAll(kb, HostKbs(kb, s))
  /\ Freed(HostKbs(kb, s))
  /\ obs' = obs \cup RelObs(s, HostKbs(kb, s), "dbl_parent")
  /\ cl' = [cl EXCEPT ![s].pc = "done"]
  /\ UNCHANGED <<fnVars, feedVars, w, eng, stop_cmd, errs>>

(***************************************************************************)
(* The engine process (openvas --scan-start), as far as it acts on the     *)
(* store.  eng[s].st: none, new (created), run (preferences loaded), fin   *)
(* (completion marker written), dead.  eng[s].hosts: the host indices it   *)
(* registered, each [idx, ph, n] with ph one of reg, run, fin.             *)
(***************************************************************************)
\* the engine loads the preferences and flips the 'new' sentinel
EngineAccept(s) ==
  /\ eng[s].st = "new"
  /\ get_status(kb, eng[s].main, s) = "new"
  /\ kb' = set_status(kb, eng[s].main, s, "ready")
  /\ eng' = [eng EXCEPT ![s].st = "run", ![s].flipped = TRUE]
  /\ UNCHANGED <<fnVars, feedVars, inuse, w, cl, stop_cmd, errs, owner, obs>>

\* the engine process ends before it loads the preferences
EngineExit(s) ==
  /\ eng[s].st = "new"
  /\ \E code \in {-1, 0, 1} :
       eng' = [eng EXCEPT ![s].st = "dead", ![s].code = code]
  /\ UNCHANGED <<fnVars, feedVars, kb, inuse, w, cl, stop_cmd, errs, owner, obs>>

\* a host index is allocated and registered under the main index
EngineRegisterHost(s) ==
  /\ eng[s].st = "run"
  /\ Len(eng[s].hosts) < MaxHosts
  /\ kb_new(inuse) # 0
  /\ LET i == kb_new(inuse)
     IN  /\ kb' = [kb EXCEPT ![i] = EmptyKb,
                             ![eng[s].main].dbindex = Append(@, i)]
         /\ inuse' = inuse \cup {i}
         /\ owner' = [owner EXCEPT ![i] = s]
         /\ eng' = [eng EXCEPT ![s].hosts =
                      Append(@, [idx |-> i, ph |-> "reg", n |-> 0])]
  /\ UNCHANGED <<fnVars, feedVars, w, cl, stop_cmd, errs, obs>>

\* the back-reference internal/scan_id is written into a host index
EngineBackref(s) ==
  /\ ProcessExists(s)
  /\ \E h \in 1 .. Len(eng[s].hosts) :
       /\ eng[s].hosts[h].ph = "reg"
       /\ kb' = [kb EXCEPT ![eng[s].hosts[h].idx].scan_id = s]
       /\ eng' = [eng EXCEPT ![s].hosts[h].ph = "run"]
  /\ UNCHANGED <<fnVars, feedVars, inuse, w, cl, stop_cmd, errs, owner, obs>>

\* a result record is queued in a host index
EngineResult(s) ==
  /\ ProcessExists(s)
  /\ \E h \in 1 .. Len(eng[s].hosts) :
       /\ eng[s].hosts[h].ph = "run"
       /\ eng[s].hosts[h].n < MaxRecs
       /\ kb' = [kb EXCEPT ![eng[s].hosts[h].idx].results =
                   Append(@, [by |-> s, n |-> eng[s].hosts[h].n + 1])]
       /\ eng' = [eng EXCEPT ![s].hosts[h].n = @ + 1]
  /\ UNCHANGED <<fnVars, feedVars, inuse, w, cl, stop_cmd, errs, owner, obs>>

\* the completion marker of a host index
EngineHostFinish(s) ==
  /\ ProcessExists(s)
  /\ \E h \in 1 .. Len(eng[s].hosts) :
       /\ eng[s].hosts[h].ph = "run"
       /\ kb' = set_status(kb, eng[s].hosts[h].idx, s, "finished")
       /\ eng' = [eng EXCEPT ![s].hosts[h].ph = "fin"]
  /\ UNCHANGED <<fnVars, feedVars, inuse, w, cl, stop_cmd, errs, owner, obs>>

\* the completion marker of the scan, once every host is finished
EngineFinish(s) ==
  /\ eng[s].st = "run"
  /\ \A h \in 1 .. Len(eng[s].hosts) : eng[s].hosts[h].ph = "fin"
  /\ get_status(kb, eng[s].main, s) = "ready"
  /\ kb' = set_status(kb, eng[s].main, s, "finished")
  /\ eng' = [eng EXCEPT ![s].st = "fin"]
  /\ UNCHANGED <<fnVars, feedVars, inuse, w, cl, stop_cmd, errs, owner, obs>>

\* the engine process ends after the scan, or on the stop instruction
EngineEnd(s) ==
  /\ \/ eng[s].st = "fin"
     \/ ProcessExists(s) /\ s \in stop_cmd
  /\ eng' = [eng EXCEPT ![s].st = "dead", ![s].code = 0]
  /\ UNCHANGED <<fnVars, feedVars, kb, inuse, w, cl, stop_cmd, errs, owner, obs>>

(***************************************************************************)
(* Feed synchronizer.  disk_feed is the PLUGIN_SET value of the marker     *)
(* file, -1 when the file does not exist; cache_feed and vts_version are   *)
(* 0 when unset.                                                           *)
(***************************************************************************)
\* a comparison that takes an equal version for a newer one
feed_is_outdated_or_equal(current_feed, date) ==
  IF date = -1 THEN "None"
  ELSE IF current_feed <= date \/ date = 0 THEN "True"
  ELSE "False"

\* lines 343-373: "None", "True" or "False"
feed_is_outdated(current_feed, date) ==
  IF date = -1 THEN "None"
  ELSE IF current_feed < date \/ date = 0 THEN "True"
  ELSE "False"

\* a catalog that is reloaded whenever a reload is due
ClearCatalogAnyway(_running_scan, _pending_feed) == _pending_feed

\* a catalog that is never reloaded
ClearCatalogNever(_running_scan, _pending_feed) == FALSE

\* line 413: the catalog is cleared and reloaded
ClearCatalog(_running_scan, _pending_feed) ==
  ~_running_scan /\ _pending_feed

\* lines 375-415.  `updated`: openvas --update-vt-info refreshed the cache;
\* `loaded`: load_vts ran to its end (lines 518-520) and did not return at
\* line 431
check_feed(updated, loaded) ==
  LET current_feed == cache_feed
      _running_scan == \E s \in Scans : Alive(s)
  IN
  IF current_feed # 0 /\ feed_is_outdated(current_feed, disk_feed) = "None"
  THEN /\ pending_feed' = TRUE
       /\ fc' = [called |-> TRUE, running |-> _running_scan,
                 absent |-> TRUE, cleared |-> FALSE, loaded |-> FALSE,
                 pending |-> pending_feed, turn |-> ~fc.turn]
       /\ UNCHANGED <<cache_feed, vts_version, self_vts>>
  ELSE
    LET due == current_feed = 0
               \/ feed_is_outdated(current_feed, disk_feed) = "True"
        cache1 == IF due /\ updated /\ disk_feed # -1
                  THEN disk_feed ELSE cache_feed
        pending1 == IF due THEN TRUE ELSE pending_feed
        _pending_feed == pending1 \/ vts_version # cache1
        \* an unset cache holds no VT load_vts could give up on
        ran == loaded \/ cache1 = 0
    IN  /\ cache_feed' = cache1
        /\ fc' = [called |-> TRUE, running |-> _running_scan,
                  absent |-> disk_feed = -1,
                  cleared |-> ClearCatalog(_running_scan, _pending_feed),
                  loaded |-> ClearCatalog(_running_scan, _pending_feed)
                             /\ ran,
                  pending |-> pending_feed, turn |-> ~fc.turn]
        /\ IF ClearCatalog(_running_scan, _pending_feed)
           THEN IF ran
                THEN /\ self_vts' = cache1
                     /\ vts_version' = cache1
                     /\ pending_feed' = FALSE
                ELSE /\ self_vts' = -1
                     /\ pending_feed' = pending1
                     /\ UNCHANGED vts_version
           ELSE IF _running_scan /\ _pending_feed
           THEN /\ pending_feed' = TRUE
                /\ UNCHANGED <<vts_version, self_vts>>
           ELSE /\ pending_feed' = pending1
                /\ UNCHANGED <<vts_version, self_vts>>

\* the scheduler's periodic call (line 417-419)
CheckFeed ==
  /\ \E updated \in BOOLEAN, loaded \in BOOLEAN : check_feed(updated, loaded)
  /\ UNCHANGED <<fnVars, disk_feed, scanVars>>

\* a newer feed is published on disk; a marker file that appears first has
\* no PLUGIN_SET line (version 0)
FeedPublish ==
  /\ disk_feed < MaxFeed
  /\ disk_feed' = disk_feed + 1
  /\ UNCHANGED <<fnVars, pending_feed, cache_feed, vts_version, self_vts, fc,
                 scanVars>>

\* the marker file is taken away (a feed synchronisation replaces the
\* plugins folder)
FeedVanish ==
  /\ disk_feed # -1
  /\ disk_feed' = -1
  /\ UNCHANGED <<fnVars, pending_feed, cache_feed, vts_version, self_vts, fc,
                 scanVars>>

(***************************************************************************)
(* Specifications.                                                         *)
(***************************************************************************)
\* exec_scan up to the launch of the engine, without the launch itself
Prepare(s, CS, VS) ==
  \/ ExecScanStart(s)
  \/ WritePrefs(s, CS, VS)
  \/ RejectRelease(s)
  \/ SpawnFail(s)

Worker(s) ==
  \/ Prepare(s, LifeCredentials, LifeVts)
  \/ Spawn(s)
  \/ WritePid(s)
  \/ LaunchWait(s)
  \/ StopCheck(s)
  \/ HarvestMain(s)
  \/ HostHarvest(s)
  \/ HostFinish(s)
  \/ CompletionCheck(s)
  \/ ReleaseMain(s)

Cleanup(s) ==
  \/ StopRequest(s)
  \/ CleanupWait(s)
  \/ CleanupRelease(s)
  \/ CleanupHosts(s)

Engine(s) ==
  \/ EngineAccept(s)
  \/ EngineExit(s)
  \/ EngineRegisterHost(s)
  \/ EngineBackref(s)
  \/ EngineResult(s)
  \/ EngineHostFinish(s)
  \/ EngineFinish(s)
  \/ EngineEnd(s)

\* the scans followed through every step, with their engine and with stop
\* requests, and the scans that allocate and release indices beside them
\* (their engine cannot be created)
Followed == {1}
Beside == {2}

\* Spec: the life cycle of a scan next to other scans on the same store
Next ==
  \/ \E s \in Followed : Worker(s) \/ Cleanup(s) \/ Engine(s)
  \/ \E s \in Beside : Prepare(s, LifeCredentials, LifeVts)

Spec == Init /\ [][Next]_vars

\* PrepSpec: the scans up to the launch of the engine, for every kind of
\* credentials and VT selection, next to the feed synchronizer
PrepNext ==
  \/ \E s \in Scans :
       Prepare(s, AllCredentials, AllVts) \/ Spawn(s) \/ WritePid(s)
  \/ CheckFeed
  \/ FeedPublish

PrepSpec == Init /\ [][PrepNext]_vars

\* FeedSpec: the feed synchronizer next to scans that start and end.  The
\* daemon may have been started without a feed on disk (init, lines
\* 299-310: the cache is then unset and the catalog empty), and the
\* load_vts of init (line 310) may have returned at line 431, which leaves
\* the catalog incomplete and its version unset.
FeedInit ==
  /\ ScanInit
  /\ pending_feed = FALSE
  /\ cache_feed \in {0, 1}
  /\ disk_feed \in {-1, 1}
  /\ \E loaded \in BOOLEAN :
       IF loaded \/ cache_feed = 0
       THEN vts_version = cache_feed /\ self_vts = cache_feed
       ELSE vts_version = 0 /\ self_vts = -1
  /\ fc = FC0
  /\ arg = NoArg
  /\ res = NoRes

FeedNext ==
  \/ \E s \in Scans : Prepare(s, LifeCredentials, LifeVts)
  \/ CheckFeed
  \/ FeedPublish
  \/ FeedVanish

FeedSpec == FeedInit /\ [][FeedNext]_vars

(***************************************************************************)
(* FnSpec: the functions of the daemon that depend on their arguments      *)
(* alone, each applied once to an argument drawn from a bounded set.       *)
(***************************************************************************)
\* cached and on-disk feed version, as integers; date -1: no marker file
FeedArgs ==
  {[fn |-> "feed_is_outdated", current_feed |-> c, date |-> d] :
     c \in 0 .. MaxFeed, d \in -1 .. MaxFeed}

AliveArgs ==
  {[fn |-> "build_alive_test_opt_as_prefs",
    target_options |-> [kind |-> k, value |-> v]] :
     k \in {"int"}, v \in -1 .. MaxMask}
  \cup {[fn |-> "build_alive_test_opt_as_prefs",
         target_options |-> [kind |-> k, value |-> 0]] :
          k \in {"absent", "invalid"}}

PrefsArgs ==
  {[fn |-> "VtPrefs", nvts |-> n,
    target_options |-> [kind |-> "int", value |-> v]] :
     n \in {VtsPing("0"), VtsPing("1"), VtsHit}, v \in 0 .. MaxMask}
  \cup {[fn |-> "VtPrefs", nvts |-> VtsPing("1"),
         target_options |-> NoTargetOptions]}
  \cup {[fn |-> "VtPrefs", nvts |-> VtsParams(cb, timeout, num),
         target_options |-> NoTargetOptions] :
          cb \in {"0", "1", "2"}, timeout \in {"42", "abc"},
          num \in {"42", "abc"}}
  \cup {[fn |-> "VtPrefs", nvts |-> VtsZero(v),
         target_options |-> NoTargetOptions] :
          v \in {"0", "1", "42", "abc"}}

\* explicit exclusions as the client's string, finished hosts as a list
OptionArgs ==
  {[fn |-> "ScanOptionPrefs", options |-> o, exclude_hosts |-> e,
    finished_hosts |-> f] :
     o \in {DefaultOptions,
            Append(DefaultOptions, <<"exclude_hosts", <<"10.0.0.7">> >>)},
     e \in {<<>>, <<"10.0.0.1">>, <<"10.0.0.1", ",", "10.0.0.9">>},
     f \in {<<>>, <<"10.0.0.2">>, <<"10.0.0.2", "10.0.0.3">>}}

CredentialArgs ==
  {[fn |-> "build_credentials_as_prefs", credentials |-> c] :
     c \in AllCredentials
           \cup {SshOfType(ty) : ty \in {"up", "usk", "UP", ""}}}

\* the sequences over S of at most MaxQueue elements
Queues(S) == UNION {[1 .. n -> S] : n \in 0 .. MaxQueue}

\* a line of internal/results as the engine writes it
ResultLine(type, oid, value) ==
  <<type, "|||", "host", "|||", "port", "|||">> \o oid \o <<"|||">> \o value

ResultLines ==
  {ResultLine(ty, oid, value) :
     ty \in {"LOG", "ALARM"},
     oid \in {<<"oid">>, <<"oid3">>, <<"oidnv">>, <<"oidX">>},
     value \in {<<"value">>, <<"a", "|||", "b">>, <<"Host dead">>}}
  \cup {ResultLine("ALARM", <<>>, <<"value">>),
        ResultLine("ERRMSG", <<"oid">>, <<"value">>),
        ResultLine("HOST_DETAIL", <<"oid">>, <<"value">>),
        <<"ALARM", "|||", "host", "|||", "port", "|||", "oid">>,
        <<"LOG", "|||", "host", "|||", "port">>}

Num(v) == [num |-> TRUE, v |-> v]
NaN == [num |-> FALSE, v |-> 0]

StatusLines ==
  {<<Num(1), Num(2)>>, <<Num(1)>>, <<Num(1), Num(2), Num(3)>>,
   <<Num(1), NaN>>, <<NaN, Num(2)>>, <<Num(1), Num(0)>>,
   <<Num(1), Num(-1)>>}

Xrefs ==
  {[sep |-> TRUE, type |-> "url", id |-> "u"],
   [sep |-> TRUE, type |-> "cve", id |-> "c"],
   [sep |-> FALSE, type |-> "", id |-> ""]}

ResultArgs ==
  {[fn |-> "get_openvas_result", queue |-> q] : q \in Queues(ResultLines)}

StatusArgs ==
  {[fn |-> "get_openvas_status", queue |-> q] : q \in Queues(StatusLines)}

RefArgs ==
  {[fn |-> "get_refs_vt_as_xml_str", queue |-> q] :
     q \in Queues(Queues(Xrefs))}

FnInit ==
  /\ ScanInit
  /\ pending_feed = FALSE
  /\ cache_feed = 1
  /\ disk_feed = 1
  /\ vts_version = 1
  /\ self_vts = 1
  /\ fc = FC0
  /\ \/ arg \in FeedArgs
     \/ arg \in AliveArgs
     \/ arg \in PrefsArgs
     \/ arg \in CredentialArgs
     \/ arg \in OptionArgs
     \/ arg \in ResultArgs
     \/ arg \in StatusArgs
     \/ arg \in RefArgs
  /\ res = NoRes

Applied(value) ==
  /\ res' = [done |-> TRUE, val |-> value]
  /\ UNCHANGED <<arg, feedVars, scanVars>>

FeedIsOutdated ==
  /\ arg.fn = "feed_is_outdated"
  /\ ~res.done
  /\ Applied(feed_is_outdated(arg.current_feed, arg.date))

BuildAliveTest ==
  /\ arg.fn = "build_alive_test_opt_as_prefs"
  /\ ~res.done
  /\ Applied(build_alive_test_opt_as_prefs(arg.target_options))

WriteVtPrefs ==
  /\ arg.fn = "VtPrefs"
  /\ ~res.done
  /\ Applied(VtPrefs(arg.nvts, arg.target_options))

GetOpenvasResult ==
  /\ arg.fn = "get_openvas_result"
  /\ ~res.done
  /\ Applied(get_openvas_result(arg.queue, <<>>))

GetOpenvasStatus ==
  /\ arg.fn = "get_openvas_status"
  /\ ~res.done
  /\ Applied(get_openvas_status(arg.queue, <<>>))

GetRefs ==
  /\ arg.fn = "get_refs_vt_as_xml_str"
  /\ ~res.done
  /\ Applied(get_refs_vt_as_xml_str(arg.queue, <<>>))

BuildCredentials ==
  /\ arg.fn = "build_credentials_as_prefs"
  /\ ~res.done
  /\ Applied(build_credentials_as_prefs(arg.credentials))

WriteScanOptions ==
  /\ arg.fn = "ScanOptionPrefs"
  /\ ~res.done
  /\ Applied(ScanOptionPrefs(arg.options, arg.exclude_hosts,
                             arg.finished_hosts))

FnNext ==
  \/ BuildCredentials
  \/ WriteScanOptions
  \/ FeedIsOutdated
  \/ BuildAliveTest
  \/ WriteVtPrefs
  \/ GetOpenvasResult
  \/ GetOpenvasStatus
  \/ GetRefs

FnSpec == FnInit /\ [][FnNext]_vars

(***************************************************************************)
(* Claims.                                                                 *)
(***************************************************************************)
\* the branches through which exec_scan leaves after a main index exists
\* and the engine was to be launched
LaunchedExits == {"oserror", "launchfail", "stopped", "normal"}

\* stop_scan_cleanup of the parent is still on its way to the releases
CleanupUnderWay(s) == cl[s].pc \in {"wait", "rel", "relhosts"}

\* C1: every execution of exec_scan that allocated a main index ends with
\* that main index released, on each exit branch (engine cannot be created,
\* engine exits with a negative code while 'new', stop observed, normal
\* completion); a release that stop_scan_cleanup has still to perform is
\* waited for.
C1_MainReleasedOnExit ==
  \A s \in Followed :
    (/\ w[s].pc = "done"
     /\ w[s].exit \in LaunchedExits
     /\ ~CleanupUnderWay(s))
    => owner[w[s].main] # s

\* C2: no index allocated for a scan (main or host) is released twice: an
\* index that stop_scan_cleanup released is not released again by the
\* per-host release or the end-of-loop release of the scan's worker.
C2_ReleasedAtMostOnce ==
  \A s \in Followed : <<"dbl_loop", s>> \notin obs

\* C3: once an index of a scan is released, the polling loop of the scan's
\* worker no longer reads, pops or enumerates a key of it (stop check,
\* result harvest, registry enumeration, completion check).
C3_NoReadAfterRelease ==
  \A s \in Followed : <<"stale", s>> \notin obs

\* C4: once 'stop_all' is written for a scan whose worker is in the polling
\* loop, the next stop check of the worker observes it and the worker
\* returns through the stop branch.
C4_StopObserved ==
  [][\A s \in Followed :
       (/\ cl[s].polling
        /\ w[s].pc = "stopchk"
        /\ w'[s].pc # "stopchk")
       => w'[s].exit = "stopped"]_vars

\* C5: in the stop path, the stop instruction is issued only once
\* 'stop_all' is written, and from then on no index allocated for the scan
\* is released while the engine process can still be observed.
C5_StopOrder ==
  [][\A s \in Followed :
       /\ (s \in stop_cmd' /\ s \notin stop_cmd)
            => \E k \in Indices : get_status(kb', k, s) = "stop_all"
       /\ (cl[s].pc \notin {"idle", "done", "failed"}
           /\ \E i \in Indices : owner[i] = s /\ owner'[i] # s)
            => ~ProcessExists(s)]_vars

QuietFinished(s) ==
  /\ w[s].pc \in PollingPcs
  /\ eng[s].st \in {"fin", "dead"}
  /\ eng[s].hosts = <<>>
  /\ get_status(kb, w[s].main, s) = "finished"

\* C7: a scan for which no host index is ever registered and whose main
\* completion marker reads 'finished' eventually leaves the polling loop
\* through normal completion with its main index released and no host index
\* harvested, unless a stop request replaces the marker.
C7_QuietScanEnds ==
  \A s \in Followed :
    QuietFinished(s)
    ~> \/ /\ w[s].exit = "normal"
          /\ owner[w[s].main] # s
          /\ ~w[s].everhit
       \/ cl[s].pc # "idle"

\* the quiet scan has ended, and nobody asked to stop it
C7_Witness ==
  \E s \in Followed :
    /\ w[s].exit = "normal"
    /\ eng[s].st = "dead"
    /\ eng[s].hosts = <<>>
    /\ ~w[s].everhit
    /\ owner[w[s].main] # s
    /\ cl[s].pc = "idle"

\* C8: with a feed reload pending, or with no port specification, exec_scan
\* records a scan error and returns 2 in a step that allocates no index,
\* writes no key into the store and creates no engine process.
C8_RejectedBeforeAllocation ==
  [][\A s \in Scans :
       (/\ w[s].pc = "idle"
        /\ w'[s].pc # "idle"
        /\ (pending_feed \/ w'[s].exit = "ports"))
       => /\ w'[s].pc = "done"
          /\ w'[s].ret = "2"
          /\ w'[s].main = 0
          /\ errs'[s] # {}
          /\ kb' = kb
          /\ inuse' = inuse
          /\ eng' = eng]_vars

\* one scan was rejected for the pending feed, another for its ports
C8_Witness ==
  \E s, r \in Scans :
    /\ w[s].exit = "feed" /\ w[s].ret = "2"
    /\ w[r].exit = "ports" /\ w[r].ret = "2"

\* the VT selection of the scan is given and empty after filtering
EmptySelection(s) ==
  /\ w[s].pc \notin {"idle", "prefs"}
  /\ w[s].nvts.given
  /\ process_vts(w[s].nvts).list = <<>>

\* C9: a scan whose VT selection is empty after filtering records a scan
\* error, is not to be launched and never gets an engine process.
C9_EmptySelectionRejected ==
  \A s \in Scans :
    EmptySelection(s)
    => /\ "No VTS to run." \in errs[s]
       /\ w[s].do_not_launch
       /\ eng[s].st = "none"

\* C10: a credential entry of a recognized service that lacks a required
\* sub-field makes the compiler fail: a scan error is recorded, the scan is
\* not to be launched and no engine process is created.
C10_MalformedCredentialRejected ==
  \A s \in Scans :
    (w[s].pc \notin {"idle", "prefs"} /\ Malformed(w[s].credentials))
    => /\ "Malformed credential." \in errs[s]
       /\ w[s].do_not_launch
       /\ eng[s].st = "none"

\* C11: when the engine process cannot be created, or exits with a negative
\* code while the sentinel still reads 'new', exec_scan has recorded a scan
\* error, released the main index and returned a failure status.
C11_LaunchFailureReported ==
  \A s \in Followed :
    (w[s].pc = "done" /\ w[s].exit \in {"oserror", "launchfail"})
    => /\ errs[s] # {}
       /\ owner[w[s].main] # s
       /\ w[s].ret \in {"1", "2"}

\* the launch wait of scan s can end: the engine flipped the sentinel, or
\* its process is gone
LaunchDecided(s) ==
  /\ w[s].pc = "wait"
  /\ \/ get_status(kb, w[s].main, s) # "new"
     \/ eng[s].st = "dead"

\* C12: the launch wait ends in every run in which the engine process flips
\* the sentinel or exits, whatever its exit code, and the active wait of
\* stop_scan_cleanup ends.
C12_WaitsEnd ==
  \A s \in Followed :
    /\ LaunchDecided(s) ~> (w[s].pc # "wait")
    /\ (cl[s].pc = "wait") ~> (cl[s].pc # "wait")

\* C13: no step of a scan worker's polling loop, nor its end-of-loop
\* release, pops a record from or releases an index that is allocated for
\* another scan.
C13_OwnIndicesOnly ==
  [][\A s \in Followed :
       (w[s].pc \in PollingPcs \cup {"relmain"} /\ w'[s] # w[s])
       => (<<"foreign", s>> \in obs' => <<"foreign", s>> \in obs)]_vars

\* a reload of the catalog is due: the cache is unset or older than the
\* feed on disk, a reload is pending, or the catalog is not of the cache's
\* version
ReloadDue ==
  \/ cache_feed = 0
  \/ feed_is_outdated(cache_feed, disk_feed) = "True"
  \/ pending_feed
  \/ vts_version # cache_feed

\* C14: a call of check_feed while a scan process is alive neither clears
\* nor reloads the in-memory catalog; when a reload is due it sets the
\* pending flag.
C14_NoReloadWhileScanning ==
  [][(CheckFeed /\ \E s \in Scans : Alive(s))
     => /\ ~fc'.cleared
        /\ self_vts' = self_vts
        /\ vts_version' = vts_version
        /\ (ReloadDue => pending_feed')]_vars

\* check_feed met a newer feed while a scan was alive and put the reload off
C14_Witness ==
  /\ fc.called /\ fc.running /\ ~fc.cleared
  /\ pending_feed
  /\ vts_version # cache_feed
  /\ self_vts = vts_version

\* C15: a call of check_feed that finds no marker file on disk sets the
\* pending flag and returns without clearing or reloading the catalog,
\* whatever the cached feed version is, unset included.
C15_AbsentFeedDefers ==
  [][(CheckFeed /\ disk_feed = -1)
     => /\ pending_feed'
        /\ ~fc'.cleared
        /\ self_vts' = self_vts
        /\ vts_version' = vts_version]_vars

\* check_feed gets as far as its reload decision: the marker file is there,
\* or the cached feed version is unset
ReachesDecision == ~(cache_feed # 0 /\ disk_feed = -1)

\* C17 as claimed: a call of check_feed with a reload due and no scan
\* process alive clears and reloads the catalog, and then the catalog
\* version equals the cached feed version and the pending flag is false.
C17_ReloadCompletes ==
  [][(CheckFeed /\ ReloadDue /\ ReachesDecision
        /\ ~\E s \in Scans : Alive(s))
     => /\ fc'.cleared
        /\ vts_version' = cache_feed'
        /\ self_vts' = cache_feed'
        /\ ~pending_feed']_vars

\* C17 as amended: such a call clears the catalog and runs load_vts; when
\* load_vts runs to its end the catalog version equals the cached feed
\* version and the pending flag is false; when load_vts gives up on a VT
\* whose parameters or metadata are missing, the catalog stays incomplete
\* and its version is not changed.
C17_ReloadCompletesIfLoaded ==
  [][(CheckFeed /\ ReloadDue /\ ReachesDecision
        /\ ~\E s \in Scans : Alive(s))
     => /\ fc'.cleared
        /\ fc'.loaded => /\ vts_version' = cache_feed'
                         /\ self_vts' = cache_feed'
                         /\ ~pending_feed'
        /\ ~fc'.loaded => /\ vts_version' = vts_version
                          /\ self_vts' = -1]_vars

\* a newer feed was loaded into the catalog after the scans had ended
C17_Witness ==
  /\ fc.called /\ fc.cleared /\ fc.loaded /\ ~fc.running
  /\ ~pending_feed
  /\ vts_version = cache_feed
  /\ vts_version = 2
  /\ \E s \in Scans : w[s].pc = "done"

\* the call feed_is_outdated(c, d) was made
FeedCall(c, d) ==
  /\ arg.fn = "feed_is_outdated"
  /\ arg.current_feed = c
  /\ arg.date = d
  /\ res.done

BitTable(m) ==
  LET ack == (m \div 1) % 2 = 1
      icmp == (m \div 2) % 2 = 1
      arp == (m \div 4) % 2 = 1
      consider_alive == (m \div 8) % 2 = 1
      syn == (m \div 16) % 2 = 1
  IN  << <<PingKey("1", "Do a TCP ping"),
           IF ack \/ syn THEN "yes" ELSE "no">>,
         <<PingKey("2", "TCP ping tries also TCP-SYN ping"),
           IF ack /\ syn THEN "yes" ELSE "no">>,
         <<PingKey("7", "TCP ping tries only TCP-SYN ping"),
           IF syn /\ ~ack THEN "yes" ELSE "no">>,
         <<PingKey("3", "Do an ICMP ping"), IF icmp THEN "yes" ELSE "no">>,
         <<PingKey("4", "Use ARP"), IF arp THEN "yes" ELSE "no">>,
         <<PingKey("5", "Mark unrechable Hosts as dead (not scanning)"),
           IF consider_alive THEN "no" ELSE "yes">> >>

\* C19: for an alive test value in 1 .. 31 the first six lines the compiler
\* yields are the lines of the bit table, followed by nothing but the
\* forced 'Do a TCP ping' line of the value 8; for a value below 1 or above
\* 31 it yields no line.
C19_AliveTestTable ==
  (arg.fn = "build_alive_test_opt_as_prefs" /\ res.done
     /\ arg.target_options.kind = "int")
  => LET m == arg.target_options.value
     IN  IF m >= 1 /\ m <= 31
         THEN /\ Len(res.val) >= 6
              /\ SubSeq(res.val, 1, 6) = BitTable(m)
              /\ Len(res.val) = IF m = 8 THEN 7 ELSE 6
              /\ m = 8 => res.val[7] = <<PingKey("1", "Do a TCP ping"), "yes">>
         ELSE res.val = <<>>

\* the values 17 (ACK and SYN), 31 and 32 were compiled
C19_Witness ==
  /\ arg.fn = "build_alive_test_opt_as_prefs"
  /\ res.done
  /\ arg.target_options.kind = "int"
  /\ \/ arg.target_options.value = 17 /\ Len(res.val) = 6
     \/ arg.target_options.value = 31 /\ Len(res.val) = 6
     \/ arg.target_options.value = 32 /\ res.val = <<>>

\* a line with four delimiters at least
FiveFields(line) ==
  Cardinality({i \in 1 .. Len(line) : line[i] = "|||"}) >= 4

TwoNumbers(msg) == Len(msg) = 2 /\ msg[1].num /\ msg[2].num

HasSeparator(xref) == xref.sep

HasXref(value) == value # <<>>

\* C18: whatever malformed record a queue holds, the function raises
\* nothing, consumes the whole queue and yields what it yields for the
\* well-formed records alone: a result line of fewer than five fields, a
\* status line that is not two numbers and an xref without ':' are skipped.
C18_MalformedRecordSkipped ==
  /\ (arg.fn = "get_openvas_result" /\ res.done)
       => /\ res.val.exc = "None"
          /\ res.val.left = <<>>
          /\ res.val.added
               = get_openvas_result(SelectSeq(arg.queue, FiveFields),
                                    <<>>).added
  /\ (arg.fn = "get_openvas_status" /\ res.done)
       => /\ res.val.exc = "None"
          /\ res.val.left = <<>>
          /\ res.val.added
               = get_openvas_status(SelectSeq(arg.queue, TwoNumbers),
                                    <<>>).added
  /\ (arg.fn = "get_refs_vt_as_xml_str" /\ res.done)
       => LET values == SelectSeq(arg.queue, HasXref)
          IN  /\ res.val.exc = "None"
              /\ Len(res.val.added) = Len(values)
              /\ \A i \in 1 .. Len(values) :
                   SelectSeq(values[i], HasSeparator) # <<>>
                   => res.val.added[i]
                        = XrefSet(SelectSeq(values[i], HasSeparator),
                                  [type |-> "unset", id |-> "unset"])

\* the VT parameter lines of a call of VtPrefs: all lines but plugin_set
ParamLines == Tail(res.val)

\* the alive-test lines of a call of VtPrefs
AliveLines == build_alive_test_opt_as_prefs(arg.target_options)

\* C20: every key of an alive-test line is written once among the VT
\* parameter lines, with the value of the last alive-test line of that key,
\* whatever value the VT selection gave that key.
C20_AliveTestWins ==
  (arg.fn = "VtPrefs" /\ res.done)
  => \A a \in 1 .. Len(AliveLines) :
       (\A b \in (a + 1) .. Len(AliveLines) :
          AliveLines[b][1] # AliveLines[a][1])
       => /\ Cardinality({i \in 1 .. Len(ParamLines) :
                            ParamLines[i][1] = AliveLines[a][1]}) = 1
          /\ \A i \in 1 .. Len(ParamLines) :
               ParamLines[i][1] = AliveLines[a][1]
               => ParamLines[i][2] = AliveLines[a][2]

\* the client set 'Do a TCP ping' of the ping-host VT and asked for an
\* ICMP-only alive test: the line is written once, with the value "no"
C20_Witness ==
  /\ arg.fn = "VtPrefs"
  /\ res.done
  /\ arg.nvts = VtsPing("1")
  /\ arg.target_options = [kind |-> "int", value |-> 2]
  /\ process_vts(arg.nvts).params
       = << <<PingKey("1", "Do a TCP ping"), "yes">> >>
  /\ ParamLines[1] = <<PingKey("1", "Do a TCP ping"), "no">>
  /\ Len(ParamLines) = 6

\* the value written for a key among the lines, "-" with the key not written
LineValue(lines, key) ==
  IF \E i \in 1 .. Len(lines) : lines[i][1] = key
  THEN lines[CHOOSE i \in 1 .. Len(lines) : lines[i][1] = key][2]
  ELSE "-"

\* the number of lines written for a key
LineCount(lines, key) ==
  Cardinality({i \in 1 .. Len(lines) : lines[i][1] = key})

\* C21: a checkbox value is written as yes for '1', as no for '0' and not
\* at all for '2'; an integer value is written unchanged when it parses
\* ('42') and not at all when it does not ('abc'); whatever is dropped, both
\* VTs stay in the plugin set and each other parameter is written.
C21_InvalidParameterDropped ==
  (arg.fn = "VtPrefs" /\ res.done
     /\ \E cb \in {"0", "1", "2"}, timeout, num \in {"42", "abc"} :
          arg.nvts = VtsParams(cb, timeout, num))
  => LET items == arg.nvts.items
         cb == items[1].params[1].value.txt
         timeout == items[1].params[2].value.txt
         num == items[2].params[1].value.txt
     IN  /\ res.val[1] = <<"plugin_set", <<"v1", "v2">> >>
         /\ LineValue(ParamLines, <<"v1", "1", "checkbox", "opt">>)
              = (CASE cb = "1" -> "yes" [] cb = "0" -> "no"
                   [] OTHER -> "-")
         /\ LineValue(ParamLines, <<"v1", "0", "entry", "timeout">>)
              = (IF timeout = "42" THEN "42" ELSE "-")
         /\ LineValue(ParamLines, <<"v2", "1", "integer", "num">>)
              = (IF num = "42" THEN "42" ELSE "-")
         /\ Len(ParamLines) = (IF cb = "2" THEN 0 ELSE 1)
                              + (IF timeout = "42" THEN 1 ELSE 0)
                              + (IF num = "42" THEN 1 ELSE 0)

\* the checkbox value '2' and the integer value 'abc' were dropped and the
\* timeout '42' of the same VT was written
C21_Witness ==
  /\ arg.fn = "VtPrefs"
  /\ res.done
  /\ arg.nvts = VtsParams("2", "42", "abc")
  /\ res.val = << <<"plugin_set", <<"v1", "v2">> >>,
                  << <<"v1", "0", "entry", "timeout">>, "42" >> >>

SshPort == "auth_port_ssh"
SshLogin == "1.3.6.1.4.1.25623.1.0.103591:1:entry:SSH login name:"
SshPassphrase == "1.3.6.1.4.1.25623.1.0.103591:2:password:SSH key passphrase:"
SshPassword == "1.3.6.1.4.1.25623.1.0.103591:3:password:SSH password (unsafe!):"
SshPrivateKey == "1.3.6.1.4.1.25623.1.0.103591:4:file:SSH private key:"

\* C22: an ssh entry of type 'up' compiles to exactly the port, login name
\* and password lines; an ssh entry of any other type compiles to lines
\* that hold the login name, the key passphrase and the private key and no
\* password line.
C22_SshLinesByType ==
  (arg.fn = "build_credentials_as_prefs" /\ res.done
     /\ Len(arg.credentials) = 1 /\ arg.credentials[1].service = "ssh")
  => LET p == arg.credentials[1].params
         up == "type" \in DOMAIN p /\ p["type"] = "up"
         keys == {res.val[i][1] : i \in 1 .. Len(res.val)}
     IN  IF up
         THEN /\ Len(res.val) = 3
              /\ keys = {SshPort, SshLogin, SshPassword}
         ELSE /\ {SshLogin, SshPassphrase, SshPrivateKey} \subseteq keys
              /\ SshPassword \notin keys

\* an entry of type 'up' and an entry of type 'usk' were compiled
C22_Witness ==
  /\ arg.fn = "build_credentials_as_prefs"
  /\ res.done
  /\ \/ arg.credentials = SshOfType("up") /\ Len(res.val) = 3
     \/ /\ arg.credentials = SshOfType("usk")
        /\ LineValue(res.val, SshPrivateKey) = "key"

IsHost(token) == token # ","

\* the exclude_hosts lines among the option lines written
ExcludeLines == SelectSeq(res.val, LAMBDA l : l[1] = "exclude_hosts")

\* C23: for a scan with finished hosts one exclude_hosts line is written,
\* and its value is the comma-joined list of the explicitly excluded hosts
\* followed by every finished host; without explicit exclusions it is the
\* finished hosts alone.
C23_ExcludeFinishedHosts ==
  (arg.fn = "ScanOptionPrefs" /\ res.done /\ arg.finished_hosts # <<>>)
  => /\ Len(ExcludeLines) = 1
     /\ ExcludeLines[1][2]
          = Join(SelectSeq(arg.exclude_hosts, IsHost) \o arg.finished_hosts)
     /\ \A i \in 1 .. Len(arg.finished_hosts) :
          \E j \in 1 .. Len(ExcludeLines[1][2]) :
            ExcludeLines[1][2][j] = arg.finished_hosts[i]

\* explicit '10.0.0.1' and finished 10.0.0.2, 10.0.0.3 were compiled to
\* '10.0.0.1,10.0.0.2,10.0.0.3'
C23_Witness ==
  /\ arg.fn = "ScanOptionPrefs"
  /\ res.done
  /\ arg.exclude_hosts = <<"10.0.0.1">>
  /\ arg.finished_hosts = <<"10.0.0.2", "10.0.0.3">>
  /\ ExcludeLines
       = << <<"exclude_hosts",
              <<"10.0.0.1", ",", "10.0.0.2", ",", "10.0.0.3">> >> >>

\* the text of a line behind its n-th delimiter
RECURSIVE AfterDelimiter(_, _)
AfterDelimiter(line, n) ==
  IF n = 0 \/ line = <<>> THEN line
  ELSE AfterDelimiter(Tail(line), IF Head(line) = "|||" THEN n - 1 ELSE n)

\* the text of a line between its n-th delimiter and the next one
RECURSIVE UpToDelimiter(_)
UpToDelimiter(line) ==
  IF line = <<>> \/ Head(line) = "|||" THEN <<>>
  ELSE <<Head(line)>> \o UpToDelimiter(Tail(line))

\* the events of a call of get_openvas_result stem from the first lines of
\* its queue: every line of five fields of the queues applied gives one
HarvestedEvents ==
  {i \in 1 .. Len(res.val.added) :
     \A j \in 1 .. i : FiveFields(arg.queue[j])}

\* the VT a line names was looked up and found: the line names a VT id of
\* the catalog and its message holds no host-dead marker
MatchedVt(line) ==
  LET oid == UpToDelimiter(AfterDelimiter(line, 3))
  IN  /\ Len(oid) = 1
      /\ oid[1] \in DOMAIN VtsCatalog
      /\ \A i \in 1 .. Len(line) : line[i] # "Host dead"

\* C24: an event carries a severity exactly when its line is an ALARM whose
\* VT was matched and declares cvss_base_v2 with a vector; an ALARM of an
\* unsupported scheme, without vector or without matched VT, and an event
\* of any other kind, carries none.
C24_SeverityOnlyForScoredAlarm ==
  (arg.fn = "get_openvas_result" /\ res.done)
  => \A i \in HarvestedEvents :
       LET line == arg.queue[i]
           oid == UpToDelimiter(AfterDelimiter(line, 3))
       IN  (res.val.added[i].severity # "None")
           <=> /\ Head(line) = "ALARM"
               /\ MatchedVt(line)
               /\ VtsCatalog[oid[1]].severities.severity_type
                    = "cvss_base_v2"
               /\ VtsCatalog[oid[1]].severities.severity_base_vector # ""

\* an ALARM of a VT with a cvss_base_v2 vector carried a score, an ALARM of
\* a VT of another scheme carried none
C24_Witness ==
  /\ arg.fn = "get_openvas_result"
  /\ res.done
  /\ arg.queue = <<ResultLine("ALARM", <<"oid">>, <<"value">>),
                   ResultLine("ALARM", <<"oid3">>, <<"value">>)>>
  /\ Len(res.val.added) = 2
  /\ res.val.added[1].severity = "score"
  /\ res.val.added[2].severity = "None"

\* C25: the message of an event is the whole text of its line behind the
\* fourth delimiter, delimiters of the message included.
C25_MessageNotResplit ==
  (arg.fn = "get_openvas_result" /\ res.done)
  => \A i \in HarvestedEvents :
       res.val.added[i].value = AfterDelimiter(arg.queue[i], 4)

\* the worker of s takes a step of its polling loop that releases the
\* index i, which is not its main index
WorkerReleasesHost(s, i) ==
  /\ Worker(s)
  /\ w[s].pc \in PollingPcs
  /\ i # w[s].main
  /\ i \in inuse
  /\ i \notin inuse'

\* C26: a step of the polling loop releases a host index only when the index
\* carries the back-reference of this scan and the marker 'finished', and
\* when its records were harvested in this tick; the step marks the host
\* finished and leaves the index out of the registry of the main index.
C26_HostReleasedWhenFinished ==
  [][\A s \in Followed : \A i \in Indices :
       WorkerReleasesHost(s, i)
       => /\ kb[i].scan_id = s
          /\ get_status(kb, i, s) = "finished"
          /\ w[s].cur = i
          /\ w[s].hit
          /\ i \in w'[s].finished_hosts
          /\ \A j \in 1 .. Len(kb'[w[s].main].dbindex) :
               kb'[w[s].main].dbindex[j] # i]_vars

\* a host index was harvested, found finished and released in a tick
C26_Witness ==
  \E s \in Followed : \E i \in Indices :
    /\ i \in w[s].finished_hosts
    /\ w[s].pc = "check"
    /\ w[s].hit
    /\ i \notin inuse
    /\ w[s].ret = "-"

\* the worker of s passes the registered index i, which carries no
\* back-reference
PassesUnreferenced(s, i) ==
  /\ Worker(s)
  /\ w[s].pc = "host"
  /\ Head(w[s].dbs) = i
  /\ i # w[s].main
  /\ kb[i].scan_id = 0

\* C27: the step of the polling loop that meets a registered index without
\* back-reference changes nothing in the store: no record is popped, the
\* index is not released and stays registered; the tick does not count the
\* index as a host of the scan.
C27_UnreferencedHostLeft ==
  [][\A s \in Followed : \A i \in Indices :
       PassesUnreferenced(s, i)
       => /\ kb' = kb
          /\ inuse' = inuse
          /\ w'[s].cur = 0
          /\ w'[s].hit = w[s].hit
          /\ w'[s].no_id_found = w[s].no_id_found
          /\ w'[s].pc \in {"host", "check"}]_vars

\* an index without back-reference was passed in this tick and is still
\* registered under the main index of the scan
C27_Witness ==
  \E s \in Followed : \E i \in w[s].skipped :
    /\ w[s].pc = "check"
    /\ kb[i].scan_id = 0
    /\ i \in inuse
    /\ owner[i] = s
    /\ \E j \in 1 .. Len(kb[w[s].main].dbindex) :
         kb[w[s].main].dbindex[j] = i

\* the worker of s leaves its launch wait
LeavesLaunchWait(s) ==
  /\ Worker(s)
  /\ w[s].pc = "wait"
  /\ w'[s].pc # "wait"

\* the worker of s pops records in its polling loop
Harvests(s) ==
  /\ Worker(s)
  /\ w[s].pc \in {"harvest", "host"}

C29_SpawnAfterPrefs ==
  [][\A s \in Scans :
       /\ Spawn(s)
          => LET prefs == kb[w[s].main].prefs
                 no == Len(DefaultOptions)
                 creds == build_credentials_as_prefs(w[s].credentials)
                 nc == Len(creds)
                 nvts == process_vts(w[s].nvts)
             IN  /\ get_status(kb, w[s].main, s) = "new"
                 /\ s \in kb[w[s].main].gsid
                 /\ Len(prefs) = no + 3 + nc + 1 + Len(nvts.params)
                 /\ \A j \in 1 .. no : prefs[j][1] = DefaultOptions[j][1]
                 /\ prefs[no + 1] = <<"ov_maindbid", ToString(w[s].main)>>
                 /\ prefs[no + 2][1] = "TARGET"
                 /\ prefs[no + 3][1] = "port_range"
                 /\ SubSeq(prefs, no + 4, no + 3 + nc) = creds
                 /\ prefs[no + nc + 4] = <<"plugin_set", nvts.list>>
                 /\ \A j \in 1 .. Len(nvts.params) :
                      prefs[no + nc + 4 + j] = nvts.params[j]
       /\ (Worker(s) /\ w[s].pc \notin {"idle", "prefs"})
          => \A i \in Indices :
               kb'[i].prefs = kb[i].prefs \/ kb'[i] = EmptyKb]_vars

\* an engine process was created for a scan with ssh credentials and two
\* VTs with parameters, whose lines are in the main index, and the worker
\* went on to write the process id
C29_Witness ==
  \E s \in Scans :
    /\ w[s].pc = "wait"
    /\ eng[s].st = "new"
    /\ kb[w[s].main].pid = s
    /\ w[s].credentials = SshUp
    /\ w[s].nvts = VtsParams("1", "42", "abc")
    /\ Len(kb[w[s].main].prefs) = 12
    /\ kb[w[s].main].prefs[12] = << <<"v1", "0", "entry", "timeout">>, "42">>

\* C30: for the alive test 8 the compiler appends, behind the six lines of
\* the table, the line 'Do a TCP ping' with the value yes, and the one line
\* of that key among the VT parameter lines written holds yes, whatever the
\* VT selection set.
C30_ConsiderAliveForcesPing ==
  /\ (arg.fn = "build_alive_test_opt_as_prefs" /\ res.done
        /\ arg.target_options = [kind |-> "int", value |-> 8])
     => /\ Len(res.val) = 7
        /\ res.val[1] = <<PingKey("1", "Do a TCP ping"), "no">>
        /\ res.val[7] = <<PingKey("1", "Do a TCP ping"), "yes">>
  /\ (arg.fn = "VtPrefs" /\ res.done
        /\ arg.target_options = [kind |-> "int", value |-> 8])
     => /\ LineCount(ParamLines, PingKey("1", "Do a TCP ping")) = 1
        /\ LineValue(ParamLines, PingKey("1", "Do a TCP ping")) = "yes"

\* the client set 'Do a TCP ping' of the ping-host VT to no and asked for
\* the alive test 8: the line written holds yes
C30_Witness ==
  /\ arg.fn = "VtPrefs"
  /\ res.done
  /\ arg.nvts = VtsPing("0")
  /\ arg.target_options = [kind |-> "int", value |-> 8]
  /\ ParamLines[1] = <<PingKey("1", "Do a TCP ping"), "yes">>
  /\ Len(ParamLines) = 6

\* C31: the parameter '0' of a VT, declared a checkbox, is written with the
\* value the client gave when that value is an integer ('1' stays '1', not
\* yes) and not at all when it is not; the VT stays in the plugin set.
C31_ParameterZeroIsInteger ==
  (arg.fn = "VtPrefs" /\ res.done
     /\ \E v \in {"0", "1", "42", "abc"} : arg.nvts = VtsZero(v))
  => LET v == arg.nvts.items[1].params[1].value.txt
     IN  /\ res.val[1] = <<"plugin_set", <<"v2">> >>
         /\ ParamLines
              = (IF v = "abc" THEN <<>>
                 ELSE << << <<"v2", "0", "checkbox", "flag">>, v >> >>)

\* the values '1' and 'abc' were given for the parameter '0'
C31_Witness ==
  /\ arg.fn = "VtPrefs"
  /\ res.done
  /\ \/ /\ arg.nvts = VtsZero("1")
        /\ ParamLines = << << <<"v2", "0", "checkbox", "flag">>, "1" >> >>
     \/ arg.nvts = VtsZero("abc") /\ ParamLines = <<>>

\* a status record whose total is not 0
SetsProgress(msg) == msg[2].v # 0

\* the progress the record 'launched/total' stands for
ProgressOf(msg) ==
  IF msg[2].v = -1 THEN 100 ELSE (msg[1].v * 100) \div msg[2].v

\* C32: a harvest of a status queue of records 'launched/total' raises
\* nothing, leaves the queue empty and sets, in queue order, one progress
\* per record whose total is not 0: 100 for the total -1 and
\* launched/total*100 otherwise.
C32_StatusHarvest ==
  (/\ arg.fn = "get_openvas_status"
   /\ res.done
   /\ \A i \in 1 .. Len(arg.queue) : TwoNumbers(arg.queue[i]))
  => LET applied == SelectSeq(arg.queue, SetsProgress)
     IN  /\ res.val.exc = "None"
         /\ res.val.left = <<>>
         /\ res.val.added
              = [i \in 1 .. Len(applied) |-> ProgressOf(applied[i])]

\* the records '1/2' and '1/-1' were harvested in that order, and the
\* records '1/0' and '1/-1'
C32_Witness ==
  /\ arg.fn = "get_openvas_status"
  /\ res.done
  /\ res.val.left = <<>>
  /\ \/ /\ arg.queue = << <<Num(1), Num(2)>>, <<Num(1), Num(-1)>> >>
        /\ res.val.added = <<50, 100>>
     \/ /\ arg.queue = << <<Num(1), Num(0)>>, <<Num(1), Num(-1)>> >>
        /\ res.val.added = <<100>>

\* C33: a harvest of a result queue of five-field records raises nothing
\* and adds one event per record, in queue order, of the kind of the
\* record's token; it leaves the queue empty, so that the next harvest
\* delivers none of these records again.
C33_OneEventPerRecord ==
  (/\ arg.fn = "get_openvas_result"
   /\ res.done
   /\ \A i \in 1 .. Len(arg.queue) :
        /\ FiveFields(arg.queue[i])
        /\ arg.queue[i][1] \in {"ERRMSG", "LOG", "HOST_DETAIL", "ALARM"})
  => /\ res.val.exc = "None"
     /\ Len(res.val.added) = Len(arg.queue)
     /\ \A i \in 1 .. Len(arg.queue) :
          res.val.added[i].type = <<arg.queue[i][1]>>
     /\ res.val.left = <<>>
     /\ get_openvas_result(res.val.left, <<>>).added = <<>>

\* an ERRMSG record and a HOST_DETAIL record were harvested in that order,
\* and an ALARM record and a LOG record
C33_Witness ==
  /\ arg.fn = "get_openvas_result"
  /\ res.done
  /\ res.val.left = <<>>
  /\ Len(res.val.added) = 2
  /\ \/ /\ arg.queue = <<ResultLine("ERRMSG", <<"oid">>, <<"value">>),
                         ResultLine("HOST_DETAIL", <<"oid">>, <<"value">>)>>
        /\ res.val.added[1].type = <<"ERRMSG">>
        /\ res.val.added[2].type = <<"HOST_DETAIL">>
     \/ /\ arg.queue = <<ResultLine("ALARM", <<"oid">>, <<"value">>),
                         ResultLine("LOG", <<"oid">>, <<"value">>)>>
        /\ res.val.added[1].type = <<"ALARM">>
        /\ res.val.added[2].type = <<"LOG">>

\* C34: when a step of the worker's polling loop releases a host index, no
\* result record is left in that index: every record the engine queued
\* there before it set the marker 'finished' was popped by the worker.
C34_ResultsHarvestedBeforeRelease ==
  [][\A s \in Followed : \A i \in Indices :
       WorkerReleasesHost(s, i) => kb[i].results = <<>>]_vars

\* C35: once the worker of a scan that no client stopped has left the
\* polling loop through the completion test, no index the engine registered
\* as a host index of this scan is still allocated to the scan or still
\* holds a result record.
C35_HostsReleasedAtNormalExit ==
  \A s \in Followed :
    (w[s].exit = "normal" /\ cl[s].pc = "idle")
    => \A h \in 1 .. Len(eng[s].hosts) :
         LET i == eng[s].hosts[h].idx
         IN  owner[i] # s /\ kb[i].results = <<>>

\* C36: the step by which stop_scan_cleanup runs to its end for a scan
\* leaves no index allocated for that scan, neither its main index nor a
\* host index its engine registered.
C36_CleanupReleasesEveryIndex ==
  [][\A s \in Followed :
       (cl[s].pc # "done" /\ cl'[s].pc = "done")
       => \A i \in Indices : owner'[i] # s]_vars

\* C37: a scan that exec_scan rejected for a malformed credential or for
\* want of VTs has returned 2 with an error recorded, has no engine process
\* and has no index allocated.
C37_RejectedScanHoldsNoIndex ==
  \A s \in Scans :
    w[s].exit = "rejected"
    => /\ w[s].ret = "2"
       /\ errs[s] \cap {"Malformed credential.", "No VTS to run."} # {}
       /\ eng[s].st = "none"
       /\ \A i \in Indices : owner[i] # s

\* one scan was rejected for its credentials and the other for its VTs,
\* both after the main index was allocated
C37_Witness ==
  /\ w[1].exit = "rejected"
  /\ w[2].exit = "rejected"
  /\ errs[1] = {"Malformed credential."}
  /\ errs[2] = {"No VTS to run."}
  /\ inuse = {}

\* C38: after every call of check_feed, a loaded catalog version that
\* differs from the feed version of the cache goes with a set pending flag.
C38_VersionMismatchKeepsPending ==
  [][CheckFeed => (vts_version' # cache_feed' => pending_feed')]_vars

\* no scan process is alive and the marker file can be read
Quiet == (\A s \in Scans : ~Alive(s)) /\ disk_feed # -1

\* the last load_vts that check_feed started ran to its end
LoadCompleted == fc.cleared => fc.loaded

\* the catalog was reloaded, the flag is cleared and exec_scan no longer
\* rejects a scan for a pending feed update
Reloaded ==
  /\ fc.loaded
  /\ ~pending_feed
  /\ vts_version = cache_feed
  /\ ~FeedBlocks(pending_feed)

WorkerRuns(s) ==
  \/ Spawn(s) \/ WritePid(s) \/ LaunchWait(s) \/ StopCheck(s)
  \/ HarvestMain(s) \/ HostHarvest(s) \/ HostFinish(s)
  \/ CompletionCheck(s) \/ ReleaseMain(s)

CleanupRuns(s) == CleanupWait(s) \/ CleanupRelease(s) \/ CleanupHosts(s)

FairSpec ==
  /\ Spec
  /\ \A s \in Followed :
       /\ WF_vars(WorkerRuns(s))
       /\ WF_vars(CleanupRuns(s))
       /\ WF_vars(EngineEnd(s))

\* FairFeedSpec: FeedSpec with the scheduler's periodic call of check_feed
\* (lines 417-419); how a call ends is up to the cache.
FairFeedSpec == FeedSpec /\ WF_vars(CheckFeed)

====
